---- MODULE Spec2Model ----
(***************************************************************************)
(* A model of the analytics engine of the workout log: the streak and      *)
(* training-percentage computations of App / Dashboard / Stats, the        *)
(* rest-interval classifier and trend detector of the consistency hook,    *)
(* and the per-position maxima of maxRepUtils.                             *)
(*                                                                         *)
(* Time.  A JavaScript Date is modelled by an integer number of ticks      *)
(* since the epoch (Thu 1 Jan 1970, local time); a day has TicksPerDay     *)
(* ticks, so one tick stands for 86400000 / TicksPerDay ms.  The local     *)
(* time zone is taken to have no daylight-saving shifts: every calendar    *)
(* day lasts exactly TicksPerDay ticks.                                    *)
(***************************************************************************)
EXTENDS Integers, Sequences, FiniteSets, TLC

VARIABLES
    now,          \* the current time, new Date() / Date.now()
    workouts,     \* App state: the workout log, in stored order
    stats,        \* last result of App.calculateStats, or None
    percentages,  \* last week/month/year training percentages, or None
    consistency,  \* last result of useExerciseConsistencyData, or None
    maxReps,      \* last result of calculateMaxReps / getExerciseMaxReps, or None
    averageReps,  \* last result of calculateAverageReps / getExerciseAverageReps
    comparison,   \* last result of useExerciseYearComparison, or None
    categories,   \* last per-category statistics of the Stats page, or None
    calls,        \* history: the hook calls made so far, with their results
    exercises,    \* App state: the ids of the exercises, in stored order
    templates,    \* App state: the workout templates, in stored order
    activeTab,    \* App state: the tab shown
    pendingWorkout,  \* App state: the logger's data as last reported, or Null
    todaysWorkout,   \* App render: index of workouts.find(isToday), 0 if none
    form,         \* WorkoutLogger state: its sets and notes, None if unmounted
    draft,        \* localStorage 'abs-draft-workout', or Null
    timers,       \* the pending draft-save timeouts: id, sets and notes
    draftSaveTimeoutRef  \* App ref: id of the last timeout set, 0 for null

\* The state of App besides the log and the clock.
appVars == <<exercises, templates, activeTab, pendingWorkout, todaysWorkout, form,
             draft, timers, draftSaveTimeoutRef>>

vars == <<now, workouts, stats, percentages, consistency, maxReps,
          averageReps, comparison, categories, calls, appVars>>

\* No result yet.  Results are records, and so is None, so that the two can
\* be compared.
None == [none |-> TRUE]

\* JavaScript's null as a result.
Null == [null |-> TRUE]

----------------------------------------------------------------------------
(* Bounds of the model *)

TicksPerDay == 2
MaxWorkouts == 3
MaxImport == 2
MaxGaps == 5

----------------------------------------------------------------------------
(* The calendar behind Date: getFullYear, getMonth, getDate, getDay,       *)
(* new Date(y, m, d), toDateString.                                        *)

IsLeap(y) ==
    (y % 4 = 0 /\ y % 100 # 0) \/ y % 400 = 0

DaysInYear(y) ==
    IF IsLeap(y) THEN 366 ELSE 365

DaysInMonth(y, m) ==
    IF m = 1 THEN (IF IsLeap(y) THEN 29 ELSE 28)
    ELSE IF m \in {3, 5, 8, 10} THEN 30 ELSE 31

\* Number of leap years in 1970 .. y-1.
LeapsBefore(y) ==
    ((y - 1) \div 4 - (y - 1) \div 100 + (y - 1) \div 400)
        - (1969 \div 4 - 1969 \div 100 + 1969 \div 400)

\* Day number (days since the epoch) of 1 January of year y.
YearStart(y) ==
    365 * (y - 1970) + LeapsBefore(y)

RECURSIVE MonthStart(_, _)
\* Day number of the first day of month m (0-based, as getMonth) of year y.
MonthStart(y, m) ==
    IF m = 0 THEN YearStart(y)
    ELSE MonthStart(y, m - 1) + DaysInMonth(y, m - 1)

\* The years and days the model's dates fall in.
Years == 2022 .. 2026
Days == YearStart(2022) .. (YearStart(2027) - 1)

\* The calendar fields of every day of the model, computed once.
Calendar ==
    [d \in Days |->
        LET y == CHOOSE yy \in Years : YearStart(yy) <= d /\ d < YearStart(yy + 1)
            m == CHOOSE mm \in 0 .. 11 :
                    MonthStart(y, mm) <= d /\ d < MonthStart(y, mm) + DaysInMonth(y, mm)
        IN  [year |-> y, month |-> m, date |-> d - MonthStart(y, m) + 1,
             day |-> (d + 4) % 7]]

\* The calendar day (day number) a timestamp falls on.
DayOf(t) == t \div TicksPerDay

\* Ticks elapsed since local midnight.
TimeOfDay(t) == t % TicksPerDay

GetFullYear(t) == Calendar[DayOf(t)].year
GetMonth(t) == Calendar[DayOf(t)].month
GetDate(t) == Calendar[DayOf(t)].date
GetDay(t) == Calendar[DayOf(t)].day

\* new Date(y, m, d): local midnight; m and d overflow as in JavaScript
\* (month -1 is December of the year before, day 0 is the last day of the
\* month before).
NewDate(y, m, d) ==
    LET yy == y + (m \div 12)
        mm == m % 12
    IN  (MonthStart(yy, mm) + d - 1) * TicksPerDay

\* date.setDate(date.getDate() + k): k days later, same time of day.
AddDays(t, k) == t + k * TicksPerDay

\* date.setHours(0, 0, 0, 0)
StartOfDay(t) == DayOf(t) * TicksPerDay

DayNames == <<"Sun", "Mon", "Tue", "Wed", "Thu", "Fri", "Sat">>
MonthNames == <<"Jan", "Feb", "Mar", "Apr", "May", "Jun",
                "Jul", "Aug", "Sep", "Oct", "Nov", "Dec">>

\* date.toDateString(), e.g. "Mon Sep 02 2024", as its four fields.
ToDateString(t) ==
    <<DayNames[GetDay(t) + 1], MonthNames[GetMonth(t) + 1], GetDate(t), GetFullYear(t)>>

\* Rank of a day or month name in the order of string comparison.
NameRank ==
    [Fri |-> 1, Mon |-> 2, Sat |-> 3, Sun |-> 4, Thu |-> 5, Tue |-> 6, Wed |-> 7,
     Apr |-> 1, Aug |-> 2, Dec |-> 3, Feb |-> 4, Jan |-> 5, Jul |-> 6, Jun |-> 7,
     Mar |-> 8, May |-> 9, Nov |-> 10, Oct |-> 11, Sep |-> 12]

\* a < b for two toDateString strings, compared as strings (code units): the
\* day name first, then the month name, the two-digit date, the year.
StringLess(a, b) ==
    LET ka == <<NameRank[a[1]], NameRank[a[2]], a[3], a[4]>>
        kb == <<NameRank[b[1]], NameRank[b[2]], b[3], b[4]>>
    IN  \E i \in 1 .. 4 :
            /\ ka[i] < kb[i]
            /\ \A j \in 1 .. (i - 1) : ka[j] = kb[j]

\* new Date(s) for a string s produced by toDateString: local midnight.
ParseDateString(s) ==
    LET m == CHOOSE mm \in 1 .. 12 : MonthNames[mm] = s[2]
    IN  NewDate(s[4], m - 1, s[3])

----------------------------------------------------------------------------
(* Array helpers *)

\* Math.round(n / d) for d > 0: the nearest integer, halves rounded up.
Round(n, d) == (2 * n + d) \div (2 * d)

Max(a, b) == IF a >= b THEN a ELSE b

\* Math.ceil(n / d) for n >= 0, d > 0
Ceil(n, d) == (n + d - 1) \div d

\* Math.floor(n / d) for d > 0
Floor(n, d) == n \div d

\* Math.min(...values) and Math.max(...values) of a non-empty array
MinOf(values) ==
    CHOOSE m \in {values[k] : k \in 1 .. Len(values)} :
        \A k \in 1 .. Len(values) : m <= values[k]

MaxOf(values) ==
    CHOOSE m \in {values[k] : k \in 1 .. Len(values)} :
        \A k \in 1 .. Len(values) : m >= values[k]

RECURSIVE ForLoop(_, _, _, _)
\* for (i = lo; i <= hi; i++) acc = Body(acc, i): the iterations run in
\* order.  The range is halved so that the evaluation stays shallow, and the
\* first half's result is compared with itself so that it is computed before
\* the second half starts (operator arguments are evaluated on demand).
ForLoop(Body(_, _), lo, hi, acc) ==
    IF lo > hi THEN acc
    ELSE IF lo = hi THEN Body(acc, lo)
    ELSE LET mid == (lo + hi) \div 2
             left == ForLoop(Body, lo, mid, acc)
         IN  IF left = left THEN ForLoop(Body, mid + 1, hi, left) ELSE acc

\* s (sorted by Before) with x put after the last element that is not after
\* x; Before(a, b) is "a must come before b" (the comparator is negative).
InsertSorted(x, s, Before(_, _)) ==
    LET i == Cardinality({j \in 1 .. Len(s) : ~Before(x, s[j])})
    IN  SubSeq(s, 1, i) \o <<x>> \o SubSeq(s, i + 1, Len(s))

\* Array.prototype.sort with a comparator: a stable sort.
Sort(s, Before(_, _)) ==
    ForLoop(LAMBDA acc, i : InsertSorted(s[i], acc, Before), 1, Len(s), <<>>)

\* [...new Set(s)]: the distinct elements in order of first occurrence.
Unique(s) ==
    ForLoop(LAMBDA acc, i :
                IF \E k \in 1 .. Len(acc) : acc[k] = s[i] THEN acc ELSE Append(acc, s[i]),
            1, Len(s), <<>>)

----------------------------------------------------------------------------
(* Workouts *)

\* A set of a workout: the exercise it belongs to and its rep count.
WorkoutSet(e, r) == [exerciseId |-> e, reps |-> r]

\* A workout: its date (a timestamp) and its sets in stored order.
\* A set of a time-based exercise: the logger leaves reps at 0 and stores the
\* duration string "MM:SS", modelled by the pair <<MM, SS>> of its numbers.
TimedSet(e, duration) == [exerciseId |-> e, reps |-> 0, duration |-> duration]

\* The exercises of the user: their category and type.
Exercises ==
    [e1 |-> [category |-> "abs", exerciseType |-> "reps"],
     e2 |-> [category |-> "legs", exerciseType |-> "reps"],
     e3 |-> [category |-> "cardio", exerciseType |-> "time"]]

\* validateDuration(duration): /^(\d{1,2}):([0-5]\d)$/
ValidateDuration(duration) ==
    /\ duration[1] \in 0 .. 99
    /\ duration[2] \in 0 .. 59

\* durationToSeconds(duration)
DurationToSeconds(duration) ==
    IF ~ValidateDuration(duration) THEN 0
    ELSE duration[1] * 60 + duration[2]

Workout(d, ss) == [date |-> d, sets |-> ss]

\* isToday(date), with new Date() = t
IsToday(d, t) == ToDateString(d) = ToDateString(t)

\* workouts.some(w => new Date(w.date).toDateString() === day.toDateString())
HasWorkoutOn(ws, day) ==
    \E k \in 1 .. Len(ws) : ToDateString(ws[k].date) = ToDateString(day)

----------------------------------------------------------------------------
(* App.calculateStats *)

\* The scan of the current streak checks at most this many days.
MaxStreakDays == 365

\* Newest first: (a, b) => new Date(b.date).getTime() - new Date(a.date).getTime()
NewestFirst(a, b) == a.date > b.date

\* Mutant of StreakStart: the scan always starts today.
StreakStart_AlwaysToday(ws, t) == t

\* The day the scan starts at: today if a workout exists today, else yesterday.
StreakStart(ws, t) ==
    IF \E k \in 1 .. Len(ws) : IsToday(ws[k].date, t) THEN t ELSE AddDays(t, -1)

\* for (let i = 0; i < 365; i++) { if (hasWorkout) { currentStreak++;
\* checkDate.setDate(checkDate.getDate() - 1) } else break }
StreakLoop(ws, start) ==
    ForLoop(LAMBDA acc, i :
                IF acc.stopped THEN acc
                ELSE IF HasWorkoutOn(ws, acc.checkDate)
                     THEN [acc EXCEPT !.currentStreak = @ + 1,
                                      !.checkDate = AddDays(@, -1)]
                     ELSE [acc EXCEPT !.stopped = TRUE],
            0, MaxStreakDays - 1,
            [checkDate |-> start, currentStreak |-> 0, stopped |-> FALSE]).currentStreak

CurrentStreak(ws, t) ==
    LET sortedWorkouts == Sort(ws, NewestFirst)
    IN  IF Len(sortedWorkouts) > 0
        THEN StreakLoop(sortedWorkouts, StreakStart(sortedWorkouts, t))
        ELSE 0

\* [...new Set(allDates)].sort(): the distinct date strings, sorted as strings.
UniqueDates(ws) ==
    LET sortedWorkouts == Sort(ws, NewestFirst)
        allDates == [k \in 1 .. Len(sortedWorkouts) |-> ToDateString(sortedWorkouts[k].date)]
    IN  Sort(Unique(allDates), StringLess)

\* |currDate - prevDate| / (1000 * 60 * 60 * 24) for two date strings
DaysDiffIsOne(prev, curr) ==
    LET prevDate == ParseDateString(prev)
        currDate == ParseDateString(curr)
        diff == IF currDate >= prevDate THEN currDate - prevDate ELSE prevDate - currDate
    IN  diff = TicksPerDay

\* The scan over uniqueDates (1-based here) and the final Math.max.
LongestLoop(uniqueDates) ==
    LET end == ForLoop(LAMBDA acc, i :
                    IF i = 1 THEN [acc EXCEPT !.tempStreak = 1]
                    ELSE IF DaysDiffIsOne(uniqueDates[i - 1], uniqueDates[i])
                         THEN [acc EXCEPT !.tempStreak = @ + 1]
                         ELSE [longestStreak |-> Max(acc.longestStreak, acc.tempStreak),
                               tempStreak |-> 1],
                    1, Len(uniqueDates),
                    [longestStreak |-> 0, tempStreak |-> 0])
    IN  Max(end.longestStreak, end.tempStreak)

LongestStreak(ws) == LongestLoop(UniqueDates(ws))

\* workout.sets.reduce((setTotal, set) => setTotal + set.reps, 0)
SumSetReps(ss) ==
    ForLoop(LAMBDA acc, k : acc + ss[k].reps, 1, Len(ss), 0)

\* The WorkoutStats of the log ws at time t (totalDuration, a sum over the
\* duration strings of the sets, is not modelled).
CalculateStats(ws, t) ==
    [totalWorkouts |-> Len(ws),
     totalSets |-> ForLoop(LAMBDA acc, k : acc + Len(ws[k].sets), 1, Len(ws), 0),
     totalReps |-> ForLoop(LAMBDA acc, k : acc + SumSetReps(ws[k].sets), 1, Len(ws), 0),
     currentStreak |-> CurrentStreak(ws, t),
     longestStreak |-> LongestStreak(ws)]

----------------------------------------------------------------------------
(* Dashboard / Stats: training percentages *)

\* Math.round((workoutDays / days) * 100).  A division by 0 gives NaN or
\* Infinity, no number: finite is then FALSE (and value means nothing).
Percentage(workoutDays, days) ==
    IF days = 0 THEN [finite |-> FALSE, value |-> 0]
    ELSE [finite |-> TRUE, value |-> Round(100 * workoutDays, days)]

\* days.filter(day => workouts.some(...same toDateString...)).length
CountWorkoutDays(ws, days) ==
    Cardinality({k \in 1 .. Len(days) : HasWorkoutOn(ws, days[k])})

\* The seven days, Monday to Sunday, of the week of t, each at midnight.
DaysInWeek(t) ==
    LET currentDay == GetDay(t)
        mondayOffset == IF currentDay = 0 THEN -6 ELSE 1 - currentDay
        monday == StartOfDay(AddDays(t, mondayOffset))
    IN  [i \in 1 .. 7 |-> AddDays(monday, i - 1)]

\* The days of the week counted as trained: every day of the week with a workout.
WeekWorkoutDays(ws, t) == CountWorkoutDays(ws, DaysInWeek(t))

\* daysInWeek.filter(day => day <= today).length
DaysPassedThisWeek(t) ==
    Cardinality({i \in 1 .. 7 : DaysInWeek(t)[i] <= t})

GetCurrentWeekPercentage(ws, t) ==
    Percentage(WeekWorkoutDays(ws, t), DaysPassedThisWeek(t))

\* while (currentDate <= today) { days.push(new Date(currentDate));
\* currentDate.setDate(currentDate.getDate() + 1) }: the loop runs once for
\* every whole day that fits between currentDate and today.
DaysUpTo(currentDate, today) ==
    IF currentDate <= today
    THEN [i \in 1 .. ((today - currentDate) \div TicksPerDay + 1) |->
              AddDays(currentDate, i - 1)]
    ELSE <<>>

\* The days of the current month up to today.
DaysInMonthSoFar(t) == DaysUpTo(NewDate(GetFullYear(t), GetMonth(t), 1), t)

GetCurrentMonthPercentage(ws, t) ==
    Percentage(CountWorkoutDays(ws, DaysInMonthSoFar(t)), Len(DaysInMonthSoFar(t)))

\* The days of the current year up to today.
DaysInYearSoFar(t) == DaysUpTo(NewDate(GetFullYear(t), 0, 1), t)

GetCurrentYearPercentage(ws, t) ==
    Percentage(CountWorkoutDays(ws, DaysInYearSoFar(t)), Len(DaysInYearSoFar(t)))

----------------------------------------------------------------------------
(* The consistency hook: rest days, pattern, trend *)

\* A date input that is a string no date can be parsed from.
UnparseableString == -1

\* A date input that is neither a Date nor a string (undefined, null, a
\* number).
NotADate == -2

\* The time of an Invalid Date, NaN.  Every comparison with NaN is false; the
\* code compares parsed dates with >= against a bound, alone or conjoined
\* with another comparison, and a value below every timestamp makes those
\* false too.
InvalidDate == -1

\* safeParseDate(dateInput): a copy of a Date; new Date(string) of a string,
\* which is an Invalid Date when the string does not parse; new Date() of
\* anything else.
SafeParseDate(dateInput) ==
    IF dateInput = NotADate THEN now
    ELSE IF dateInput = UnparseableString THEN InvalidDate
    ELSE dateInput

\* (a, b) => a - b on numbers
Ascending(a, b) == a < b

\* (a, b) => a.date.getTime() - b.date.getTime()
OldestFirst(a, b) == a.date < b.date

\* Mutant of CalculateMedian: the upper middle value stands for an even count.
CalculateMedian_UpperMiddle(values) ==
    IF Len(values) = 0 THEN 0
    ELSE 2 * Sort(values, Ascending)[Floor(Len(values), 2) + 1]

\* calculateMedian(values), in half days (twice the median), so that the
\* mean of the two middle values stays an integer.
CalculateMedian(values) ==
    IF Len(values) = 0 THEN 0
    ELSE LET sorted == Sort(values, Ascending)
             mid == Floor(Len(sorted), 2)      \* 0-based index
         IN  IF Len(sorted) % 2 = 0
             THEN sorted[mid] + sorted[mid + 1]
             ELSE 2 * sorted[mid + 1]

\* Math.round(median * 10) / 10 of a median given in half days, in tenths of
\* a day.
RoundToTenths(median) == Round(10 * median, 2)

\* Mutant of PatternOfIqr: the bounds are exclusive.
PatternOfIqr_Exclusive(iqr) ==
    IF iqr < 2 THEN "Stable"
    ELSE IF iqr < 7 THEN "Variable"
    ELSE "Irregular"

\* if (iqr <= 2) return 'Stable'; if (iqr <= 7) return 'Variable'; return 'Irregular'
PatternOfIqr(iqr) ==
    IF iqr <= 2 THEN "Stable"
    ELSE IF iqr <= 7 THEN "Variable"
    ELSE "Irregular"

\* getConsistencyPattern(restDays)
GetConsistencyPattern(restDays) ==
    IF Len(restDays) < 2 THEN "Stable"
    ELSE LET sorted == Sort(restDays, Ascending)
             q1Index == Floor(Len(sorted) * 25, 100)   \* Math.floor(length * 0.25)
             q3Index == Floor(Len(sorted) * 75, 100)   \* Math.floor(length * 0.75)
             q1 == sorted[q1Index + 1]
             q3 == sorted[q3Index + 1]
             iqr == q3 - q1
         IN  PatternOfIqr(iqr)

\* Mutant of HasExercise: every workout with a set qualifies.
HasExercise_AnySet(workout, exerciseId) == Len(workout.sets) > 0

\* workout.sets.some(set => set.exerciseId === exerciseId)
HasExercise(workout, exerciseId) ==
    \E k \in 1 .. Len(workout.sets) : workout.sets[k].exerciseId = exerciseId

\* Mutant of Sessions: the sessions stay in the order of the log.
Sessions_StoredOrder(ws, exerciseId) ==
    LET filtered == SelectSeq(ws, LAMBDA w : HasExercise(w, exerciseId))
    IN  [k \in 1 .. Len(filtered) |->
            [date |-> SafeParseDate(filtered[k].date), workout |-> filtered[k]]]

\* The workouts with a set of the exercise, as sessions sorted by date.
Sessions(ws, exerciseId) ==
    LET filtered == SelectSeq(ws, LAMBDA w : HasExercise(w, exerciseId))
        mapped == [k \in 1 .. Len(filtered) |->
                      [date |-> SafeParseDate(filtered[k].date), workout |-> filtered[k]]]
    IN  Sort(mapped, OldestFirst)

\* The rest days between two consecutive sessions: the hours are reset, and
\* diffDays = Math.ceil(|d1 - d2| / (1000 * 60 * 60 * 24)).
DiffDays(current, previous) ==
    LET d1 == NewDate(GetFullYear(current), GetMonth(current), GetDate(current))
        d2 == NewDate(GetFullYear(previous), GetMonth(previous), GetDate(previous))
        diffTime == IF d1 >= d2 THEN d1 - d2 ELSE d2 - d1
    IN  Ceil(diffTime, TicksPerDay)

\* calculateRestDays(workouts, exerciseId)
CalculateRestDays(ws, exerciseId) ==
    LET sessions == Sessions(ws, exerciseId)
    IN  IF Len(sessions) < 2 THEN <<>>
        ELSE [i \in 1 .. (Len(sessions) - 1) |->
                 [date |-> sessions[i + 1].date,
                  days |-> DiffDays(sessions[i + 1].date, sessions[i].date)]]

\* The last moment of last year the filter accepts: 31 December, 23:59:59,
\* which is after every tick of that day.
EndOfYear(y) == NewDate(y, 11, 31) + (TicksPerDay - 1)

\* filterWorkoutsByPeriod(workouts, period), with new Date() = t
FilterWorkoutsByPeriod(ws, period, t) ==
    LET currentYear == GetFullYear(t)
    IN  CASE period = "4months" ->
                \* setMonth(getMonth() - 4), setHours(0, 0, 0, 0)
                LET fourMonthsAgo == NewDate(GetFullYear(t), GetMonth(t) - 4, GetDate(t))
                IN  SelectSeq(ws, LAMBDA w : SafeParseDate(w.date) >= fourMonthsAgo)
          [] period = "currentYear" ->
                LET startOfYear == NewDate(currentYear, 0, 1)
                IN  SelectSeq(ws, LAMBDA w : SafeParseDate(w.date) >= startOfYear)
          [] period = "lastYear" ->
                LET startOfLastYear == NewDate(currentYear - 1, 0, 1)
                    endOfLastYear == EndOfYear(currentYear - 1)
                IN  SelectSeq(ws, LAMBDA w :
                        /\ SafeParseDate(w.date) >= startOfLastYear
                        /\ SafeParseDate(w.date) <= endOfLastYear)
          [] OTHER -> ws

\* Mutant of TrendMidPoint: the midpoint is rounded up.
TrendMidPoint_RoundedUp(n) == Ceil(n, 2)

\* const midPoint = Math.floor(sorted.length / 2)
TrendMidPoint(n) == Floor(n, 2)

\* Mutant of TrendDirection: the thresholds are inclusive.
TrendDirection_Inclusive(percentageChange) ==
    IF percentageChange >= 10 THEN "improving"
    ELSE IF percentageChange <= -10 THEN "declining"
    ELSE "stable"

\* The direction of a percentage change.
TrendDirection(percentageChange) ==
    IF percentageChange > 10 THEN "improving"
    ELSE IF percentageChange < -10 THEN "declining"
    ELSE "stable"

\* The days of a list of rest-day records: data.map(d => d.days)
DaysOf(data) == [k \in 1 .. Len(data) |-> data[k].days]

\* calculateTrend(restDaysData, period); the medians are in half days.
CalculateTrend(restDaysData, period) ==
    IF period # "4months" \/ Len(restDaysData) < 4 THEN Null
    ELSE LET sorted == Sort(restDaysData, OldestFirst)
             midPoint == TrendMidPoint(Len(sorted))
             recentData == SubSeq(sorted, midPoint + 1, Len(sorted))  \* slice(midPoint)
             pastData == SubSeq(sorted, 1, midPoint)                  \* slice(0, midPoint)
             recentMedian == CalculateMedian(DaysOf(recentData))
             pastMedian == CalculateMedian(DaysOf(pastData))
             percentageChange ==
                 IF pastMedian > 0
                 THEN Round(100 * (pastMedian - recentMedian), pastMedian)
                 ELSE 0
         IN  IF Len(recentData) < 2 \/ Len(pastData) < 2
             THEN [direction |-> "insufficient", percentageChange |-> 0,
                   recentMedian |-> recentMedian, pastMedian |-> pastMedian]
             ELSE [direction |-> TrendDirection(percentageChange),
                   percentageChange |-> percentageChange,
                   recentMedian |-> recentMedian, pastMedian |-> pastMedian]

\* The Map of the rest-day values to their number of occurrences.
Distribution(restDays) ==
    [v \in {restDays[k] : k \in 1 .. Len(restDays)} |->
        Cardinality({k \in 1 .. Len(restDays) : restDays[k] = v})]

\* useExerciseConsistencyData(workouts, exerciseId, period), with new Date() = t.
\* medianRestDays is in tenths of a day.
UseExerciseConsistencyData(ws, exerciseId, period, t) ==
    IF exerciseId = "" THEN Null
    ELSE LET filteredWorkouts == FilterWorkoutsByPeriod(ws, period, t)
             restDaysData == CalculateRestDays(filteredWorkouts, exerciseId)
             exerciseWorkouts ==
                 SelectSeq(filteredWorkouts, LAMBDA w : HasExercise(w, exerciseId))
             restDays == DaysOf(restDaysData)
         IN  IF Len(restDaysData) = 0
             THEN [medianRestDays |-> 0, minRestDays |-> 0, maxRestDays |-> 0,
                   workoutCount |-> Len(exerciseWorkouts), pattern |-> "Stable",
                   restDaysDistribution |-> <<>>, restDaysData |-> <<>>,
                   trend |-> Null]
             ELSE [medianRestDays |-> RoundToTenths(CalculateMedian(restDays)),
                   minRestDays |-> MinOf(restDays), maxRestDays |-> MaxOf(restDays),
                   workoutCount |-> Len(exerciseWorkouts),
                   pattern |-> GetConsistencyPattern(restDays),
                   restDaysDistribution |-> Distribution(restDays),
                   restDaysData |-> restDaysData,
                   trend |-> CalculateTrend(restDaysData, period)]

\* Mutant of IsImproved: a shorter rest improves whatever the counts.
IsImproved_EitherChange(workoutChange, restDaysChange) ==
    workoutChange > 0 \/ restDaysChange > 0

\* workoutChange > 0 || (workoutChange === 0 && restDaysChange > 0)
IsImproved(workoutChange, restDaysChange) ==
    workoutChange > 0 \/ (workoutChange = 0 /\ restDaysChange > 0)

\* The summary of a year from its rest days: median is in half days,
\* medianRestDays in tenths of a day.
RestDaysSummary(restDays, workoutCount, year) ==
    LET median == IF Len(restDays) > 0 THEN CalculateMedian(restDays) ELSE 0
    IN  [year |-> year,
         workoutCount |-> workoutCount,
         median |-> median,
         medianRestDays |-> RoundToTenths(median),
         pattern |-> GetConsistencyPattern(restDays)]

\* The summary of one year: its workouts of the exercise and the median and
\* pattern of their rest days.
YearSummary(yearWorkouts, exerciseId, year) ==
    RestDaysSummary(DaysOf(CalculateRestDays(yearWorkouts, exerciseId)),
                    Len(SelectSeq(yearWorkouts, LAMBDA w : HasExercise(w, exerciseId))),
                    year)

\* The comparison of the summaries of the current and the last year;
\* restDaysChange is in tenths of a day.
YearComparison(current, last) ==
    [currentYear |-> [year |-> current.year,
                      workoutCount |-> current.workoutCount,
                      medianRestDays |-> current.medianRestDays,
                      pattern |-> current.pattern],
     lastYear |-> [year |-> last.year,
                   workoutCount |-> last.workoutCount,
                   medianRestDays |-> last.medianRestDays,
                   pattern |-> last.pattern],
     workoutChange |-> current.workoutCount - last.workoutCount,
     restDaysChange |-> RoundToTenths(last.median - current.median),
     isImproved |-> IsImproved(current.workoutCount - last.workoutCount,
                               last.median - current.median)]

\* useExerciseYearComparison(workouts, exerciseId), with new Date() = t
UseExerciseYearComparison(ws, exerciseId, t) ==
    IF exerciseId = "" THEN Null
    ELSE YearComparison(
             YearSummary(FilterWorkoutsByPeriod(ws, "currentYear", t), exerciseId,
                         GetFullYear(t)),
             YearSummary(FilterWorkoutsByPeriod(ws, "lastYear", t), exerciseId,
                         GetFullYear(t) - 1))

----------------------------------------------------------------------------
(* Stats: the per-category consistency statistics and trends *)

\* The eight fixed categories.
Categories ==
    {"abs", "legs", "arms", "back", "shoulders", "chest", "cardio", "full-body"}

\* workout.sets.some(set => exercises.find(e => e.id === set.exerciseId)?.category
\*                          === category.value)
InCategory(workout, category) ==
    \E k \in 1 .. Len(workout.sets) :
        Exercises[workout.sets[k].exerciseId].category = category

\* The rest days between the workouts of a list, sorted by date: the
\* difference of the timestamps, Math.ceil(|t1 - t0| / (1000 * 60 * 60 * 24)).
TimestampRestDays(categoryWorkouts) ==
    LET sorted == Sort(categoryWorkouts,
                       LAMBDA a, b : SafeParseDate(a.date) < SafeParseDate(b.date))
    IN  [i \in 1 .. (Len(sorted) - 1) |->
            LET t1 == SafeParseDate(sorted[i + 1].date)
                t0 == SafeParseDate(sorted[i].date)
            IN  Ceil(IF t1 >= t0 THEN t1 - t0 ELSE t0 - t1, TicksPerDay)]

\* The numbers of the range text: none for 'N/A', one for 'n days', two for
\* 'min-max days'.
RangeText(restDays) ==
    IF Len(restDays) = 0 THEN <<>>
    ELSE IF MinOf(restDays) = MaxOf(restDays) THEN <<MinOf(restDays)>>
    ELSE <<MinOf(restDays), MaxOf(restDays)>>

\* getCategoryConsistencyStats(), with new Date() = t; medianRestDays is in
\* tenths of a day.
GetCategoryConsistencyStats(ws, t) ==
    LET fourMonthsAgo == NewDate(GetFullYear(t), GetMonth(t) - 4, GetDate(t))
        recentWorkouts == SelectSeq(ws, LAMBDA w : SafeParseDate(w.date) >= fourMonthsAgo)
    IN  [category \in Categories |->
            LET categoryWorkouts ==
                    SelectSeq(recentWorkouts, LAMBDA w : InCategory(w, category))
                restDays == TimestampRestDays(categoryWorkouts)
            IN  [medianRestDays |-> RoundToTenths(CalculateMedian(restDays)),
                 workoutCount |-> Len(categoryWorkouts),
                 pattern |-> GetConsistencyPattern(restDays),
                 range |-> RangeText(restDays)]]

\* The length of each of the two periods of the category trends, in days:
\* 6 * 7 * 24 * 60 * 60 * 1000 ms.
TrendPeriodDays == 42

\* calculateMedianForWorkouts(categoryWorkouts), in half days
CalculateMedianForWorkouts(categoryWorkouts) ==
    IF Len(categoryWorkouts) < 2 THEN 0
    ELSE CalculateMedian(TimestampRestDays(categoryWorkouts))

\* getConsistencyTrends(), with new Date() = t.  The medians are in half
\* days; trendPercentage is the fraction num / den, which is not rounded.
GetConsistencyTrends(ws, t) ==
    LET sixWeeksAgo == t - TrendPeriodDays * TicksPerDay
        previousPeriodEnd == sixWeeksAgo - TrendPeriodDays * TicksPerDay
        recentWorkouts == SelectSeq(ws, LAMBDA w : SafeParseDate(w.date) >= sixWeeksAgo)
        pastWorkouts == SelectSeq(ws, LAMBDA w :
                            /\ SafeParseDate(w.date) >= previousPeriodEnd
                            /\ SafeParseDate(w.date) < sixWeeksAgo)
    IN  [category \in Categories |->
            LET recentCategoryWorkouts ==
                    SelectSeq(recentWorkouts, LAMBDA w : InCategory(w, category))
                pastCategoryWorkouts ==
                    SelectSeq(pastWorkouts, LAMBDA w : InCategory(w, category))
                recentMedian == CalculateMedianForWorkouts(recentCategoryWorkouts)
                pastMedian == CalculateMedianForWorkouts(pastCategoryWorkouts)
                zero == [num |-> 0, den |-> 1]
            IN  IF Len(recentCategoryWorkouts) >= 2 /\ Len(pastCategoryWorkouts) >= 2
                THEN IF recentMedian < pastMedian
                     THEN [recentMedian |-> recentMedian, pastMedian |-> pastMedian,
                           trend |-> "improving",
                           trendPercentage |->
                               IF pastMedian > 0
                               THEN [num |-> 100 * (pastMedian - recentMedian),
                                     den |-> pastMedian]
                               ELSE zero]
                     ELSE IF recentMedian > pastMedian
                     THEN [recentMedian |-> recentMedian, pastMedian |-> pastMedian,
                           trend |-> "declining",
                           trendPercentage |->
                               IF pastMedian > 0
                               THEN [num |-> 100 * (recentMedian - pastMedian),
                                     den |-> pastMedian]
                               ELSE zero]
                     ELSE [recentMedian |-> recentMedian, pastMedian |-> pastMedian,
                           trend |-> "stable", trendPercentage |-> zero]
                ELSE [recentMedian |-> recentMedian, pastMedian |-> pastMedian,
                      trend |-> "insufficient", trendPercentage |-> zero]]

----------------------------------------------------------------------------
(* maxRepUtils: the per-position maxima *)

\* The length of the '3months' window, in days: 90 * 24 * 60 * 60 * 1000 ms.
WindowDays == 90

\* cutoffDate, with Date.now() = t
CutoffDate(timeframe, t) ==
    IF timeframe = "3months" THEN t - WindowDays * TicksPerDay ELSE 0

\* Mutant of ExerciseSets: the position counts the sets of every exercise.
ExerciseSets_AllSets(workout, exerciseId) == workout.sets

\* The sets of the exercise in a workout, in order; the set at position p is
\* the p-th of them.
ExerciseSets(workout, exerciseId) ==
    SelectSeq(workout.sets, LAMBDA set : set.exerciseId = exerciseId)

\* Mutant of RoundToHundredths: the average is truncated.
RoundToHundredths_Truncated(totalReps, totalSets) == (100 * totalReps) \div totalSets

\* !maxRecord || setAtPosition.reps > maxRecord.maxReps
Exceeds(reps, maxRecord) ==
    IF maxRecord = Null THEN TRUE ELSE reps > maxRecord.maxReps

\* calculateMaxReps(workouts, exerciseId, setPosition, timeframe), with
\* Date.now() = t
CalculateMaxReps(ws, exerciseId, setPosition, timeframe, t) ==
    LET cutoffDate == CutoffDate(timeframe, t)
    IN  ForLoop(LAMBDA maxRecord, k :
                    IF ws[k].date < cutoffDate THEN maxRecord
                    ELSE LET exerciseSets == ExerciseSets(ws[k], exerciseId)
                         IN  IF /\ setPosition <= Len(exerciseSets)
                                /\ Exceeds(exerciseSets[setPosition].reps, maxRecord)
                             THEN [exerciseId |-> exerciseId,
                                   setPosition |-> setPosition,
                                   maxReps |-> exerciseSets[setPosition].reps,
                                   date |-> ws[k].date]
                             ELSE maxRecord,
                1, Len(ws), Null)

\* Math.round((totalReps / totalSets) * 100) / 100, in hundredths.
RoundToHundredths(totalReps, totalSets) == Round(100 * totalReps, totalSets)

\* calculateAverageReps(workouts, exerciseId, setPosition, timeframe), with
\* Date.now() = t; averageReps is in hundredths.
CalculateAverageReps(ws, exerciseId, setPosition, timeframe, t) ==
    LET cutoffDate == CutoffDate(timeframe, t)
        end == ForLoop(LAMBDA acc, k :
                    IF ws[k].date < cutoffDate THEN acc
                    ELSE LET exerciseSets == ExerciseSets(ws[k], exerciseId)
                         IN  IF setPosition <= Len(exerciseSets)
                             THEN [totalReps |-> acc.totalReps + exerciseSets[setPosition].reps,
                                   totalSets |-> acc.totalSets + 1]
                             ELSE acc,
                    1, Len(ws), [totalReps |-> 0, totalSets |-> 0])
    IN  IF end.totalSets = 0 THEN Null
        ELSE [exerciseId |-> exerciseId,
              setPosition |-> setPosition,
              averageReps |-> RoundToHundredths(end.totalReps, end.totalSets),
              totalSets |-> end.totalSets]

\* Mutant of MaxSets: only the first workout of the log is looked at.
MaxSets_FirstWorkout(ws, exerciseId) ==
    IF Len(ws) = 0 THEN 0 ELSE Len(ExerciseSets(ws[1], exerciseId))

\* maxSets: the largest number of sets of the exercise in any workout of the
\* log, inside the timeframe or not.
MaxSets(ws, exerciseId) ==
    ForLoop(LAMBDA maxSets, k : Max(maxSets, Len(ExerciseSets(ws[k], exerciseId))),
            1, Len(ws), 0)

\* getExerciseMaxReps(workouts, exerciseId, timeframe), with Date.now() = t:
\* the records of the positions 1 .. maxSets that have one, in that order.
GetExerciseMaxReps(ws, exerciseId, timeframe, t) ==
    ForLoop(LAMBDA records, position :
                LET maxRecord == CalculateMaxReps(ws, exerciseId, position, timeframe, t)
                IN  IF maxRecord # Null THEN Append(records, maxRecord) ELSE records,
            1, MaxSets(ws, exerciseId), <<>>)

\* getExerciseAverageReps(workouts, exerciseId, timeframe), with Date.now() = t
GetExerciseAverageReps(ws, exerciseId, timeframe, t) ==
    ForLoop(LAMBDA records, position :
                LET avgRecord == CalculateAverageReps(ws, exerciseId, position, timeframe, t)
                IN  IF avgRecord # Null THEN Append(records, avgRecord) ELSE records,
            1, MaxSets(ws, exerciseId), <<>>)

----------------------------------------------------------------------------
(* App: the log and its renders *)

\* The sets logged in a workout of the streak and percentage model.
OneSet == <<WorkoutSet("e1", 10)>>

\* The current times of the model: Wed 1 Jan 2025, Fri 1 Mar 2024 (after a
\* leap day), Mon 2 Sep 2024 and Sun 8 Jun 2025, at every time of day.
NowChoices ==
    {NewDate(d[1], d[2], d[3]) + tod :
        d \in {<<2025, 0, 1>>, <<2024, 2, 1>>, <<2024, 8, 2>>, <<2025, 5, 8>>},
        tod \in 0 .. (TicksPerDay - 1)}

\* The dates of importable workouts: the days around today, tomorrow and the
\* day after included.
ImportDates(t) == {AddDays(StartOfDay(t), k) : k \in -3 .. 2}

\* n workouts on n consecutive days, oldest first, the last one on day end.
DailyRun(end, n) ==
    [k \in 1 .. n |-> Workout(AddDays(StartOfDay(end), k - n), OneSet)]

\* The logs found in storage ('abs-workouts') when the app starts: none, or
\* more than a year of daily workouts up to today or up to yesterday.
StoredLogs(t) ==
    {<<>>} \cup {DailyRun(AddDays(t, -k), MaxStreakDays + 1) : k \in 0 .. 1}

\* The batches of workouts an import may bring: parseWorkoutsCSV groups the
\* rows by calendar day, so a batch holds one workout per day, in any order.
ImportBatches(t) ==
    {b \in UNION {[1 .. n -> {Workout(d, OneSet) : d \in ImportDates(t)}] :
                    n \in 1 .. MaxImport} :
        \A i, j \in 1 .. Len(b) : i # j => b[i].date # b[j].date}

\* workouts.find(w => isToday(new Date(w.date))), with new Date() = t: the
\* index of the first workout dated today, 0 if there is none.  The date
\* string of an Invalid Date is never today's.
FindTodaysWorkout(ws, t) ==
    LET found == {k \in 1 .. Len(ws) : ws[k].date >= 0 /\ IsToday(ws[k].date, t)}
    IN  IF found = {} THEN 0 ELSE CHOOSE k \in found : \A j \in found : k <= j

\* App with the stored exercises on the dashboard: no template, no pending
\* workout, no logger, no draft, no timeout.
AppAtRest ==
    /\ exercises = <<"e1", "e2", "e3">>
    /\ templates = <<>>
    /\ activeTab = "dashboard"
    /\ pendingWorkout = Null
    /\ todaysWorkout = FindTodaysWorkout(workouts, now)
    /\ form = None
    /\ draft = Null
    /\ timers = {}
    /\ draftSaveTimeoutRef = 0

\* The app starts with an empty log.
InitStats ==
    /\ now \in NowChoices
    /\ workouts = <<>>
    /\ stats = None
    /\ percentages = None
    /\ consistency = None
    /\ maxReps = None
    /\ averageReps = None
    /\ comparison = None
    /\ categories = None
    /\ calls = {}
    /\ AppAtRest

\* The app starts with whatever log is in storage.
InitStored ==
    /\ now \in NowChoices
    /\ workouts \in StoredLogs(now)
    /\ stats = None
    /\ percentages = None
    /\ consistency = None
    /\ maxReps = None
    /\ averageReps = None
    /\ comparison = None
    /\ categories = None
    /\ calls = {}
    /\ AppAtRest

\* handleImportWorkouts(newWorkouts, []): the new workouts whose calendar day
\* is not yet in the log are appended; the app renders anew.
HandleImportWorkouts(newWorkouts) ==
    /\ Len(workouts) + Len(newWorkouts) <= MaxWorkouts
    /\ LET existingDates == {ToDateString(workouts[k].date) : k \in 1 .. Len(workouts)}
           uniqueNewWorkouts ==
               SelectSeq(newWorkouts, LAMBDA w : ToDateString(w.date) \notin existingDates)
       IN  workouts' = workouts \o uniqueNewWorkouts
    /\ stats' = None
    /\ percentages' = None
    /\ todaysWorkout' = FindTodaysWorkout(workouts', now)
    /\ UNCHANGED <<now, consistency, maxReps, averageReps, comparison, categories, calls,
                   exercises, templates, activeTab, pendingWorkout, form, draft, timers,
                   draftSaveTimeoutRef>>

ImportWorkouts ==
    \E newWorkouts \in ImportBatches(now) : HandleImportWorkouts(newWorkouts)

\* Mutant of SortOfCopyLeaves: the array itself is sorted, array.sort(compare).
SortInPlaceLeaves(array, sorted) == sorted

\* What [...array].sort(compare) leaves in array: the spread copies the
\* array and sort reorders the copy (sorted), so the array keeps its order.
SortOfCopyLeaves(array, sorted) == array

\* A render of App: const stats = calculateStats(), which sorts a copy of
\* the log newest first.
RenderApp ==
    /\ stats = None
    /\ stats' = CalculateStats(workouts, now)
    /\ workouts' = SortOfCopyLeaves(workouts, Sort(workouts, NewestFirst))
    /\ UNCHANGED <<now, percentages, consistency, maxReps, averageReps, comparison, categories, calls, appVars>>

\* A render of Dashboard (and of Stats): the three training percentages.
RenderDashboard ==
    /\ percentages = None
    /\ percentages' = [week |-> GetCurrentWeekPercentage(workouts, now),
                       month |-> GetCurrentMonthPercentage(workouts, now),
                       year |-> GetCurrentYearPercentage(workouts, now)]
    /\ UNCHANGED <<now, workouts, stats, consistency, maxReps, averageReps, comparison, categories, calls, appVars>>

NextStats ==
    \/ ImportWorkouts
    \/ RenderApp
    \/ RenderDashboard

SpecStats == InitStats /\ [][NextStats]_vars

SpecStored == InitStored /\ [][NextStats]_vars

----------------------------------------------------------------------------
(* The consistency chart and the records page: a stored log and one render *)

\* The current time of the renders: 31 January 2025, so that the start of the
\* four-month window (31 September) overflows into 1 October 2024.
RenderNow == NewDate(2025, 0, 31) + 1

\* The rest intervals of the stored training histories, in days.
GapChoices == {1, 3, 8, 9, 10, 11}

GapLists == UNION {[1 .. n -> GapChoices] : n \in 0 .. MaxGaps}

\* The log of one workout of exercise e1 per training day, oldest first,
\* that starts on a day and continues with the given rest intervals.
RECURSIVE GapLog(_, _)
GapLog(start, gaps) ==
    IF Len(gaps) = 0 THEN <<Workout(start, OneSet)>>
    ELSE <<Workout(start, OneSet)>> \o GapLog(AddDays(start, Head(gaps)), Tail(gaps))

\* The days the stored histories start on: before the four-month window, and
\* late enough to run into the current year.
HistoryStarts == {NewDate(2024, 8, 20) + 1, NewDate(2024, 10, 25) + 1}

\* The workouts of the short logs: today, yesterday or three days ago, early
\* or late in the day, of exercise e1 or of another exercise.
ShortLogWorkouts ==
    {Workout(AddDays(StartOfDay(RenderNow), -k) + tod, <<WorkoutSet(e, 10)>>) :
        k \in {0, 1, 3}, tod \in {0, TicksPerDay - 1}, e \in {"e1", "e2"}}

\* The short logs, in any order.
ShortLogs == UNION {[1 .. n -> ShortLogWorkouts] : n \in 0 .. MaxWorkouts}

InitConsistency ==
    /\ now = RenderNow
    /\ workouts \in ShortLogs \cup {GapLog(s, g) : s \in HistoryStarts, g \in GapLists}
    /\ stats = None
    /\ percentages = None
    /\ consistency = None
    /\ maxReps = None
    /\ averageReps = None
    /\ comparison = None
    /\ categories = None
    /\ calls = {}
    /\ AppAtRest

Periods == {"4months", "currentYear", "lastYear"}

\* ExerciseConsistencyChart renders useExerciseConsistencyData for the
\* selected exercise and period.
RenderConsistency(exerciseId, period) ==
    /\ consistency = None
    /\ consistency' = [exerciseId |-> exerciseId, period |-> period,
                       data |-> UseExerciseConsistencyData(workouts, exerciseId, period, now)]
    /\ UNCHANGED <<now, workouts, stats, percentages, maxReps, averageReps, comparison, categories, calls, appVars>>

\* The period values a caller may pass: those of PeriodType, and a value
\* outside it.
PeriodInputs == Periods \cup {"6months"}

NextConsistency == \E period \in PeriodInputs : RenderConsistency("e1", period)

SpecConsistency == InitConsistency /\ [][NextConsistency]_vars

\* The workouts of the logs of the records page: today, yesterday, or just
\* outside the 90-day window; one set of e1, or a set of e2 and two of e1, or
\* one timed set of e3.
RecordWorkouts ==
    {Workout(d, ss) :
        d \in {RenderNow, AddDays(RenderNow, -1), AddDays(RenderNow, -WindowDays) - 1},
        ss \in {<<WorkoutSet("e1", 8)>>, <<WorkoutSet("e1", 10)>>,
                <<WorkoutSet("e2", 12), WorkoutSet("e1", 8), WorkoutSet("e1", 10)>>,
                <<TimedSet("e3", <<1, 30>>)>>, <<TimedSet("e3", <<0, 45>>)>>}}

RecordLogs == UNION {[1 .. n -> RecordWorkouts] : n \in 0 .. MaxWorkouts}

InitMaxReps ==
    /\ now = RenderNow
    /\ workouts \in RecordLogs
    /\ stats = None
    /\ percentages = None
    /\ consistency = None
    /\ maxReps = None
    /\ averageReps = None
    /\ comparison = None
    /\ categories = None
    /\ calls = {}
    /\ AppAtRest

\* The logger renders the maximum and the average of an exercise at a set
\* position over a timeframe (getStatsForSet).
RenderMaxReps(exerciseId, setPosition, timeframe) ==
    /\ maxReps = None
    /\ maxReps' = [exerciseId |-> exerciseId, setPosition |-> setPosition,
                   timeframe |-> timeframe,
                   record |-> CalculateMaxReps(workouts, exerciseId, setPosition, timeframe, now)]
    /\ averageReps' = [exerciseId |-> exerciseId, setPosition |-> setPosition,
                       timeframe |-> timeframe,
                       record |-> CalculateAverageReps(workouts, exerciseId, setPosition,
                                                       timeframe, now)]
    /\ UNCHANGED <<now, workouts, stats, percentages, consistency, comparison, categories, calls, appVars>>

NextMaxReps ==
    \E exerciseId \in {"e1", "e3"}, setPosition \in 1 .. 2, timeframe \in {"all", "3months"} :
        RenderMaxReps(exerciseId, setPosition, timeframe)

SpecMaxReps == InitMaxReps /\ [][NextMaxReps]_vars

\* The workouts of the logs with damaged dates: a date that is an
\* unparseable string, one that is no date at all, yesterday, three days ago,
\* or a day before every window; of exercise e1 or of another exercise.
DamagedLogWorkouts ==
    {Workout(d, <<WorkoutSet(e, 10)>>) :
        d \in {UnparseableString, NotADate, AddDays(RenderNow, -1), AddDays(RenderNow, -3),
               NewDate(GetFullYear(RenderNow) - 2, 5, 1)},
        e \in {"e1", "e2"}}

DamagedLogs == UNION {[1 .. n -> DamagedLogWorkouts] : n \in 0 .. MaxWorkouts}

InitDamaged ==
    /\ now = RenderNow
    /\ workouts \in DamagedLogs
    /\ stats = None
    /\ percentages = None
    /\ consistency = None
    /\ maxReps = None
    /\ averageReps = None
    /\ comparison = None
    /\ categories = None
    /\ calls = {}
    /\ AppAtRest

NextDamaged == \E period \in Periods : RenderConsistency("e1", period)

SpecDamaged == InitDamaged /\ [][NextDamaged]_vars

\* The Stats page renders the per-category statistics and trends.
RenderCategories ==
    /\ categories = None
    /\ calls = {}
    /\ AppAtRest
    /\ categories' = [stats |-> GetCategoryConsistencyStats(workouts, now),
                      trends |-> GetConsistencyTrends(workouts, now)]
    /\ UNCHANGED <<now, workouts, stats, percentages, consistency, maxReps, averageReps,
                   comparison, calls, appVars>>

NextCategories == RenderCategories

SpecCategories == InitConsistency /\ [][NextCategories]_vars

\* The workouts of the short logs of the year comparison: on the last day
\* of the year before last, the first and the last day of last year, the
\* first day of this year, yesterday, tomorrow, and the first day of next
\* year; of exercise e1 or of another exercise.
YearLogWorkouts ==
    {Workout(d, <<WorkoutSet(e, 10)>>) :
        d \in {EndOfYear(GetFullYear(RenderNow) - 2),
               NewDate(GetFullYear(RenderNow) - 1, 0, 1),
               EndOfYear(GetFullYear(RenderNow) - 1),
               NewDate(GetFullYear(RenderNow), 0, 1),
               AddDays(RenderNow, -1),
               AddDays(RenderNow, 1),
               NewDate(GetFullYear(RenderNow) + 1, 0, 1)},
        e \in {"e1", "e2"}}

\* The short logs of the year comparison, in any order.
YearLogs == UNION {[1 .. n -> YearLogWorkouts] : n \in 0 .. MaxWorkouts}

\* The day the histories that run over the turn of the year start on.
YearHistoryStart == NewDate(2024, 11, 20) + 1

InitYears ==
    /\ now = RenderNow
    /\ workouts \in YearLogs \cup {GapLog(YearHistoryStart, g) : g \in GapLists}
    /\ stats = None
    /\ percentages = None
    /\ consistency = None
    /\ maxReps = None
    /\ averageReps = None
    /\ comparison = None
    /\ categories = None
    /\ calls = {}
    /\ AppAtRest

\* The Stats page renders useExerciseYearComparison for the selected
\* exercise.
RenderYearComparison(exerciseId) ==
    /\ comparison = None
    /\ comparison' = [exerciseId |-> exerciseId,
                      data |-> UseExerciseYearComparison(workouts, exerciseId, now)]
    /\ UNCHANGED <<now, workouts, stats, percentages, consistency, maxReps, averageReps,
                   categories, calls, appVars>>

NextYears == RenderYearComparison("e1")

SpecYears == InitYears /\ [][NextYears]_vars

----------------------------------------------------------------------------
(* The engine as a set of functions of the log: one call on a stored log *)

\* The workouts of the logs the engine is called on: today early or late,
\* yesterday, four days ago, or just outside the 90-day window (last year);
\* one set of e1, or a set of e2 between two sets of e1.
EngineWorkouts ==
    {Workout(d, ss) :
        d \in {StartOfDay(RenderNow), RenderNow, AddDays(RenderNow, -1),
               AddDays(RenderNow, -4), AddDays(RenderNow, -WindowDays) - 1},
        ss \in {<<WorkoutSet("e1", 8)>>,
                <<WorkoutSet("e1", 10), WorkoutSet("e2", 12), WorkoutSet("e1", 8)>>}}

\* The logs, in any order.
EngineLogs == UNION {[1 .. n -> EngineWorkouts] : n \in 0 .. MaxWorkouts}

InitEngine ==
    /\ now = RenderNow
    /\ workouts \in EngineLogs
    /\ stats = None
    /\ percentages = None
    /\ consistency = None
    /\ maxReps = None
    /\ averageReps = None
    /\ comparison = None
    /\ categories = None
    /\ calls = {}
    /\ AppAtRest

\* No engine function has been called on the log yet.
Fresh ==
    /\ stats = None
    /\ percentages = None
    /\ consistency = None
    /\ maxReps = None
    /\ averageReps = None
    /\ comparison = None
    /\ categories = None

\* One call of one engine function on the log.
NextEngine ==
    \/ Fresh /\ RenderApp
    \/ Fresh /\ RenderDashboard
    \/ Fresh /\ \E period \in PeriodInputs : RenderConsistency("e1", period)
    \/ Fresh /\ RenderYearComparison("e1")
    \/ Fresh /\ RenderCategories
    \/ Fresh /\ \E exerciseId \in {"e1", "e2"}, setPosition \in 1 .. 2,
                   timeframe \in {"all", "3months"} :
                    RenderMaxReps(exerciseId, setPosition, timeframe)

SpecEngine == InitEngine /\ [][NextEngine]_vars

\* The workouts of the logs around the three-month window of RenderNow:
\* today, tomorrow, 91 days ago (2 November), three calendar months ago
\* (31 October) and the day before; one set of e1.
WindowWorkouts ==
    {Workout(d, <<WorkoutSet("e1", r)>>) :
        d \in {RenderNow, AddDays(RenderNow, 1), AddDays(RenderNow, -WindowDays) - 1,
               NewDate(2024, 9, 31) + 1, NewDate(2024, 9, 30) + 1},
        r \in {8, 10}}

WindowLogs == UNION {[1 .. n -> WindowWorkouts] : n \in 0 .. MaxWorkouts}

InitWindow ==
    /\ now = RenderNow
    /\ workouts \in WindowLogs
    /\ stats = None
    /\ percentages = None
    /\ consistency = None
    /\ maxReps = None
    /\ averageReps = None
    /\ comparison = None
    /\ categories = None
    /\ calls = {}
    /\ AppAtRest

\* The logger shows the three-month maximum and average of a set.
NextWindow == RenderMaxReps("e1", 1, "3months")

SpecWindow == InitWindow /\ [][NextWindow]_vars

\* The two series of an exercise over a timeframe: getExerciseMaxReps and
\* getExerciseAverageReps on the same log.
RenderSeries(exerciseId, timeframe) ==
    /\ maxReps = None
    /\ maxReps' = [exerciseId |-> exerciseId, timeframe |-> timeframe,
                   series |-> GetExerciseMaxReps(workouts, exerciseId, timeframe, now)]
    /\ averageReps' = [exerciseId |-> exerciseId, timeframe |-> timeframe,
                       series |-> GetExerciseAverageReps(workouts, exerciseId, timeframe, now)]
    /\ UNCHANGED <<now, workouts, stats, percentages, consistency, comparison, categories,
                   calls, appVars>>

NextSeries ==
    \E exerciseId \in {"e1", "e2"}, timeframe \in {"all", "3months"} :
        RenderSeries(exerciseId, timeframe)

SpecSeries == InitEngine /\ [][NextSeries]_vars

----------------------------------------------------------------------------
(* The Stats page over time: re-renders of the memoized consistency hook *)

\* The hook calls the history records at most.
MaxCalls == 4

\* The days that pass while the page stays open, at most.
MaxDaysOpen == 2

\* The workouts of the logs of the open page: on the first day of the
\* four-month window of RenderNow (1 October 2024), or yesterday.
MemoWorkouts ==
    {Workout(d, OneSet) : d \in {NewDate(2024, 9, 1) + 1, AddDays(RenderNow, -1)}}

MemoLogs == UNION {[1 .. n -> MemoWorkouts] : n \in 0 .. MaxWorkouts}

InitMemo ==
    /\ now = RenderNow
    /\ workouts \in MemoLogs
    /\ stats = None
    /\ percentages = None
    /\ consistency = None
    /\ maxReps = None
    /\ averageReps = None
    /\ comparison = None
    /\ categories = None
    /\ calls = {}
    /\ AppAtRest

\* A day passes; nothing renders.
Tick ==
    /\ now < RenderNow + MaxDaysOpen * TicksPerDay
    /\ now' = now + TicksPerDay
    /\ UNCHANGED <<workouts, stats, percentages, consistency, maxReps, averageReps,
                   comparison, categories, calls, appVars>>

\* useMemo(() => ..., [workouts, exerciseId, period]) in
\* useExerciseConsistencyData: the value of the last render is returned when
\* the dependencies are those of the last render (the log is the same array
\* as long as App does not render), and computed otherwise.
MemoizedConsistencyData(exerciseId, period) ==
    IF /\ consistency # None
       /\ consistency.exerciseId = exerciseId
       /\ consistency.period = period
    THEN consistency.data
    ELSE UseExerciseConsistencyData(workouts, exerciseId, period, now)

\* A render of the Stats page with the selected exercise and period: it
\* calls useExerciseConsistencyData(workouts, exerciseId, period).
RenderStats(exerciseId, period) ==
    /\ Cardinality(calls) < MaxCalls
    /\ consistency' = [exerciseId |-> exerciseId, period |-> period,
                       data |-> MemoizedConsistencyData(exerciseId, period)]
    /\ calls' = calls \cup {[exerciseId |-> exerciseId, period |-> period, at |-> now,
                             data |-> MemoizedConsistencyData(exerciseId, period)]}
    /\ UNCHANGED <<now, workouts, stats, percentages, maxReps, averageReps, comparison,
                   categories, appVars>>

NextMemo ==
    \/ Tick
    \/ \E period \in {"4months", "currentYear"} : RenderStats("e1", period)

SpecMemo == InitMemo /\ [][NextMemo]_vars

----------------------------------------------------------------------------
(* App and WorkoutLogger: saving, the draft and its timeout, the exercises *)

\* The timeouts handleWorkoutDataChange sets during a session, at most.
MaxTimers == 3

\* The midnights that pass while the app is open, at most.
MaxNights == 1

\* The data of the logger: its sets and its notes.
LoggerData(sets, notes) == [sets |-> sets, notes |-> notes]

\* The logger after setSets([]) and setNotes('').
EmptyData == LoggerData(<<>>, "")

\* What the user may have in the logger after an edit.
DataChoices ==
    {LoggerData(<<WorkoutSet("e1", 10)>>, ""),
     LoggerData(<<WorkoutSet("e1", 10), WorkoutSet("e2", 12)>>, "felt good")}

\* The logger loads today's workout: its sets and its notes (the notes of a
\* workout are not modelled, so they load as '').
LoadedData(workout) == LoggerData(workout.sets, "")

\* The templates in storage ('abs-templates'): each has at least one exercise.
StoredTemplates ==
    <<[name |-> "A", exercises |-> <<[exerciseId |-> "e1", sets |-> 3],
                                     [exerciseId |-> "e2", sets |-> 2]>>],
      [name |-> "B", exercises |-> <<[exerciseId |-> "e2", sets |-> 3]>>]>>

\* The tabs of the model.
Tabs == {"dashboard", "workout", "exercises", "import"}

\* The batches imported in a session: one workout, dated the day the app is
\* opened or the day after (new Date(dateString): midnight).
SessionImports ==
    {<<Workout(AddDays(StartOfDay(RenderNow), k), OneSet)>> : k \in 0 .. 1}

\* The app starts on the dashboard with an empty log, the stored exercises
\* and templates, and no draft.
InitApp ==
    /\ now = RenderNow
    /\ workouts = <<>>
    /\ stats = None
    /\ percentages = None
    /\ consistency = None
    /\ maxReps = None
    /\ averageReps = None
    /\ comparison = None
    /\ categories = None
    /\ calls = {}
    /\ exercises = <<"e1", "e2", "e3">>
    /\ templates = StoredTemplates
    /\ activeTab = "dashboard"
    /\ pendingWorkout = Null
    /\ todaysWorkout = 0
    /\ form = None
    /\ draft = Null
    /\ timers = {}
    /\ draftSaveTimeoutRef = 0

\* The results of the engine play no part in what follows.
results == <<stats, percentages, consistency, maxReps, averageReps, comparison,
             categories, calls>>

\* Midnight passes; nothing renders, so the handlers keep the values of the
\* last render.
Midnight ==
    /\ now < RenderNow + MaxNights * TicksPerDay
    /\ now' = now + TicksPerDay
    /\ UNCHANGED <<workouts, results, appVars>>

\* Mutant of ClearTimeout: the pending timeout is left alone.
ClearTimeout_Nothing(pending, id) == pending

\* if (draftSaveTimeoutRef.current) clearTimeout(draftSaveTimeoutRef.current)
ClearTimeout(pending, id) == {timer \in pending : timer.id # id}

\* setTimeout(() => saveDraftWorkout(sets, notes), 400) after the
\* clearTimeout: the pending timeouts and the new value of the ref.
SetDraftTimeout(data) ==
    /\ draftSaveTimeoutRef < MaxTimers
    /\ draftSaveTimeoutRef' = draftSaveTimeoutRef + 1
    /\ timers' = ClearTimeout(timers, draftSaveTimeoutRef)
                    \cup {[id |-> draftSaveTimeoutRef + 1, sets |-> data.sets,
                           notes |-> data.notes]}

\* handleWorkoutDataChange(sets, notes), called by the logger's effect with
\* its sets and notes, and the render of App that setPendingWorkout causes.
\* When that render finds another workout of today than the last one did,
\* the logger loads it (the effect on todaysWorkout) and reports again.
HandleWorkoutDataChange(data) ==
    LET found == FindTodaysWorkout(workouts, now)
        reported == IF found # 0 /\ found # todaysWorkout /\ activeTab = "workout"
                    THEN LoadedData(workouts[found])
                    ELSE data
    IN  /\ form' = reported
        /\ pendingWorkout' = reported
        /\ SetDraftTimeout(reported)
        /\ todaysWorkout' = found
        /\ UNCHANGED <<now, workouts, results, exercises, templates, activeTab, draft>>

\* The user edits the sets or the notes in the logger: setSets / setNotes,
\* then the effect that reports the data to App.
EditWorkout ==
    /\ activeTab = "workout"
    /\ form # None
    /\ \E data \in DataChoices \cup {EmptyData} :
          /\ \A k \in 1 .. Len(data.sets) :
                \E e \in 1 .. Len(exercises) : exercises[e] = data.sets[k].exerciseId
          /\ HandleWorkoutDataChange(data)

\* The logger's effect runs again with the same data: its dependency
\* onWorkoutDataChange is a new function after every render of App.  A logger
\* on its way out (AnimatePresence) keeps the props of its last render, so
\* its effect runs again only for the form that handleSave or resetWorkout
\* has reset.
ReportAgain ==
    /\ form # None
    /\ activeTab = "workout" \/ form = EmptyData
    /\ HandleWorkoutDataChange(form)

\* The timeout of a draft save expires: saveDraftWorkout(sets, notes).
DraftTimeout ==
    \E timer \in timers :
        /\ timers' = timers \ {timer}
        /\ draft' = [sets |-> timer.sets, notes |-> timer.notes, savedAt |-> now]
        /\ UNCHANGED <<now, workouts, results, exercises, templates, activeTab,
                       pendingWorkout, todaysWorkout, form, draftSaveTimeoutRef>>

\* handleSaveWorkout(workoutData) / handleUpdateWorkout(id, workoutData): the
\* log after the call; the workout is found by its place in the log of the
\* last render (its id).
SavedLog(id, workout) ==
    IF id # 0
    THEN [k \in 1 .. Len(workouts) |-> IF k = id THEN workout ELSE workouts[k]]
    ELSE Append(workouts, workout)

\* WorkoutLogger.handleSave: the workout is dated now and updates the
\* workout the last render found for today, or is added; App shows the
\* dashboard and clears the draft; the form is reset.
HandleSave ==
    /\ activeTab = "workout"
    /\ form # None
    /\ Len(form.sets) > 0
    /\ Len(workouts) < MaxWorkouts \/ todaysWorkout # 0
    /\ workouts' = SavedLog(todaysWorkout, Workout(now, form.sets))
    /\ activeTab' = "dashboard"
    /\ draft' = Null
    /\ form' = EmptyData
    /\ todaysWorkout' = FindTodaysWorkout(workouts', now)
    /\ UNCHANGED <<now, results, exercises, templates, pendingWorkout, timers,
                   draftSaveTimeoutRef>>

\* handleDeleteWorkout(id): workouts.filter(workout => workout.id !== id);
\* the id is the place of the workout in the log of the last render.
WithoutWorkout(ws, id) ==
    [k \in 1 .. Len(ws) - (IF id \in 1 .. Len(ws) THEN 1 ELSE 0) |->
        IF k < id THEN ws[k] ELSE ws[k + 1]]

\* WorkoutLogger.resetWorkout: handleDeleteWorkout of the workout the last
\* render found for today, and the form is reset.
ResetWorkout ==
    /\ activeTab = "workout"
    /\ form # None
    /\ IF todaysWorkout # 0
       THEN /\ workouts' = WithoutWorkout(workouts, todaysWorkout)
            /\ draft' = Null
       ELSE UNCHANGED <<workouts, draft>>
    /\ form' = EmptyData
    /\ todaysWorkout' = 0
    /\ UNCHANGED <<now, results, exercises, templates, activeTab, pendingWorkout, timers,
                   draftSaveTimeoutRef>>

\* handleTabChange(newTab) away from the workout tab: the pending workout is
\* saved as today's workout (found now), or the draft is cleared when it has
\* no sets.
LeaveWorkoutTab(newTab) ==
    /\ activeTab = "workout"
    /\ newTab # "workout"
    /\ IF pendingWorkout # Null
       THEN IF Len(pendingWorkout.sets) > 0
            THEN /\ Len(workouts) < MaxWorkouts \/ FindTodaysWorkout(workouts, now) # 0
                 /\ workouts' = SavedLog(FindTodaysWorkout(workouts, now),
                                         Workout(now, pendingWorkout.sets))
                 /\ pendingWorkout' = Null
                 /\ draft' = Null
            ELSE /\ draft' = Null
                 /\ UNCHANGED <<workouts, pendingWorkout>>
       ELSE UNCHANGED <<workouts, pendingWorkout, draft>>
    /\ activeTab' = newTab
    /\ todaysWorkout' = FindTodaysWorkout(workouts', now)
    /\ UNCHANGED <<now, results, exercises, templates, form, timers, draftSaveTimeoutRef>>

\* handleTabChange(newTab) from another tab.  On the workout tab the logger
\* mounts once the last one is gone, loads today's workout if there is one,
\* and its effect reports the data to App.
ChangeTab(newTab) ==
    /\ activeTab # "workout"
    /\ newTab # activeTab
    /\ activeTab' = newTab
    /\ todaysWorkout' = FindTodaysWorkout(workouts, now)
    /\ IF newTab = "workout"
       THEN /\ form = None
            /\ form' = IF todaysWorkout' # 0 THEN LoadedData(workouts[todaysWorkout'])
                       ELSE EmptyData
            /\ pendingWorkout' = form'
            /\ SetDraftTimeout(form')
       ELSE UNCHANGED <<form, pendingWorkout, timers, draftSaveTimeoutRef>>
    /\ UNCHANGED <<now, workouts, results, exercises, templates, draft>>

HandleTabChange ==
    \E newTab \in Tabs : LeaveWorkoutTab(newTab) \/ ChangeTab(newTab)

\* The logger that is no longer shown unmounts.
LoggerUnmounts ==
    /\ activeTab # "workout"
    /\ form # None
    /\ form' = None
    /\ UNCHANGED <<now, workouts, results, exercises, templates, activeTab, pendingWorkout,
                   todaysWorkout, draft, timers, draftSaveTimeoutRef>>

\* An import from the import tab.
ImportInSession ==
    /\ activeTab = "import"
    /\ \E newWorkouts \in SessionImports : HandleImportWorkouts(newWorkouts)

\* array.filter(keep) on the entries of a workout or a template
Without(entries, id) == SelectSeq(entries, LAMBDA entry : entry.exerciseId # id)

\* Mutant of NonEmptyWorkouts: the workouts left without sets stay.
NonEmptyWorkouts_All(ws) == ws

\* .filter(workout => workout.sets.length > 0)
NonEmptyWorkouts(ws) == SelectSeq(ws, LAMBDA workout : Len(workout.sets) > 0)

\* handleDeleteExercise(id), from the exercises tab
HandleDeleteExercise(id) ==
    /\ activeTab = "exercises"
    /\ exercises' = SelectSeq(exercises, LAMBDA exercise : exercise # id)
    /\ workouts' = NonEmptyWorkouts([k \in 1 .. Len(workouts) |->
                        [workouts[k] EXCEPT !.sets = Without(@, id)]])
    /\ templates' = SelectSeq([k \in 1 .. Len(templates) |->
                                  [templates[k] EXCEPT !.exercises = Without(@, id)]],
                              LAMBDA template : Len(template.exercises) > 0)
    /\ todaysWorkout' = FindTodaysWorkout(workouts', now)
    /\ UNCHANGED <<now, results, activeTab, pendingWorkout, form, draft, timers,
                   draftSaveTimeoutRef>>

\* The exercise deleted in a session.
DeleteInSession == HandleDeleteExercise("e1")

NextApp ==
    \/ Midnight
    \/ HandleTabChange
    \/ EditWorkout
    \/ ReportAgain
    \/ DraftTimeout
    \/ HandleSave
    \/ ResetWorkout
    \/ LoggerUnmounts
    \/ ImportInSession
    \/ DeleteInSession

SpecApp == InitApp /\ [][NextApp]_vars

\* The sets of the stored workouts when an exercise is deleted.
ExerciseSetLists ==
    {<<WorkoutSet("e1", 10)>>,
     <<WorkoutSet("e2", 12)>>,
     <<WorkoutSet("e1", 10), WorkoutSet("e2", 12), WorkoutSet("e1", 8)>>,
     <<WorkoutSet("e3", 5), WorkoutSet("e2", 12)>>}

\* The stored logs: up to MaxWorkouts workouts on the days before today,
\* each with at least one set.
ExerciseLogs ==
    UNION {[1 .. n -> ExerciseSetLists] : n \in 0 .. MaxWorkouts}

\* The exercises tab is open on a stored log, the stored exercises and the
\* stored templates.
InitExercises ==
    /\ now = RenderNow
    /\ \E sets \in ExerciseLogs :
          workouts = [k \in 1 .. Len(sets) |-> Workout(AddDays(RenderNow, 0 - k), sets[k])]
    /\ stats = None
    /\ percentages = None
    /\ consistency = None
    /\ maxReps = None
    /\ averageReps = None
    /\ comparison = None
    /\ categories = None
    /\ calls = {}
    /\ exercises = <<"e1", "e2", "e3">>
    /\ templates \in {StoredTemplates, <<>>}
    /\ activeTab = "exercises"
    /\ pendingWorkout = Null
    /\ todaysWorkout = 0
    /\ form = None
    /\ draft = Null
    /\ timers = {}
    /\ draftSaveTimeoutRef = 0

\* The list of exercises offers the deletion of each exercise it shows.
DeleteExercise ==
    \E e \in 1 .. Len(exercises) : HandleDeleteExercise(exercises[e])

SpecExercises == InitExercises /\ [][DeleteExercise]_vars

----------------------------------------------------------------------------
(* Claims about the streaks and the training percentages *)

\* The calendar days (day numbers) that have a workout.
WorkoutDays == {DayOf(workouts[k].date) : k \in 1 .. Len(workouts)}

Today == DayOf(now)

C2_LongestAtLeastCurrent ==
    (stats # None /\ Today \in WorkoutDays) =>
        stats.longestStreak >= stats.currentStreak

\* The length of the longest run of consecutive days in the set D of days.
LongestRun(D) ==
    LET starts == {d \in D : d - 1 \notin D}
        ends == {d \in D : d + 1 \notin D}
        runs == {(CHOOSE e \in ends : e >= s /\ \A x \in ends : x >= s => e <= x) - s + 1 :
                    s \in starts}
    IN  IF D = {} THEN 0 ELSE CHOOSE r \in runs : \A x \in runs : x <= r

\* C3: the longest streak is the length of the longest run of consecutive
\* calendar days among the distinct workout days, 0 for an empty log.
C3_LongestIsLongestRun ==
    stats # None => stats.longestStreak = LongestRun(WorkoutDays)

\* C4: the current streak counts the consecutive days with a workout backward
\* from today (from yesterday if today has none), stops at the first day
\* without one, and never exceeds 365.
C4_CurrentStreak ==
    stats # None =>
        LET start == IF Today \in WorkoutDays THEN Today ELSE Today - 1
            cs == stats.currentStreak
        IN  /\ cs \in 0 .. 365
            /\ \A i \in 0 .. (cs - 1) : (start - i) \in WorkoutDays
            /\ cs < 365 => (start - cs) \notin WorkoutDays
            /\ (Today \notin WorkoutDays /\ (Today - 1) \notin WorkoutDays) => cs = 0

\* C4 witness: the scan stopped at its cap, starting from yesterday, in a log
\* whose run of daily workouts is longer than the cap.
C4_Witness ==
    /\ stats # None
    /\ stats.currentStreak = 365
    /\ Today \notin WorkoutDays
    /\ \A i \in 1 .. 366 : (Today - i) \in WorkoutDays

----------------------------------------------------------------------------
(* Claims about the rest-interval classifier and the trend detector *)

\* The rendered consistency data, when a chart has been rendered.
Rendered == consistency # None /\ consistency.data # Null

\* The gap list of the rendered data.
Gaps == DaysOf(consistency.data.restDaysData)

\* The element at 0-based index k of the ascending arrangement of g.
OrderStatistic(g, k) ==
    CHOOSE v \in {g[i] : i \in 1 .. Len(g)} :
        /\ Cardinality({i \in 1 .. Len(g) : g[i] < v}) <= k
        /\ k < Cardinality({i \in 1 .. Len(g) : g[i] <= v})

\* The interquartile range of a gap list, without interpolation.
Iqr(g) == OrderStatistic(g, (3 * Len(g)) \div 4) - OrderStatistic(g, Len(g) \div 4)

\* C5: the pattern of a gap list of length n is Stable when n < 2; otherwise,
\* with IQR = sorted[floor(0.75 n)] - sorted[floor(0.25 n)], it is Stable iff
\* IQR <= 2, Variable iff 2 < IQR <= 7 and Irregular iff IQR > 7.
C5_PatternByIqr ==
    Rendered =>
        LET pattern == consistency.data.pattern
        IN  IF Len(Gaps) < 2 THEN pattern = "Stable"
            ELSE /\ pattern \in {"Stable", "Variable", "Irregular"}
                 /\ pattern = "Stable" <=> Iqr(Gaps) <= 2
                 /\ pattern = "Variable" <=> (2 < Iqr(Gaps) /\ Iqr(Gaps) <= 7)
                 /\ pattern = "Irregular" <=> Iqr(Gaps) > 7

\* A gap list whose IQR is exactly 7 has been classified as Variable.
C5_Witness ==
    /\ Rendered
    /\ Len(Gaps) >= 2
    /\ Iqr(Gaps) = 7
    /\ consistency.data.pattern = "Variable"

\* The calendar days, inside the window of the rendered period, of the
\* workouts that have a set of the rendered exercise.
QualifyingDays ==
    LET inWindow == FilterWorkoutsByPeriod(workouts, consistency.period, now)
    IN  {DayOf(inWindow[k].date) :
            k \in {j \in 1 .. Len(inWindow) : HasExercise(inWindow[j], consistency.exerciseId)}}

\* C6: same-day workouts count as one day: the gap list has (number of
\* distinct qualifying days in the window - 1) entries, and each entry is the
\* distance between two consecutive distinct qualifying days.
C6_GapsBetweenDistinctDays ==
    Rendered =>
        /\ Len(Gaps) = Max(Cardinality(QualifyingDays) - 1, 0)
        /\ \A k \in 1 .. Len(Gaps) :
              /\ Gaps[k] >= 1
              /\ \E d \in QualifyingDays :
                    /\ d + Gaps[k] \in QualifyingDays
                    /\ \A x \in (d + 1) .. (d + Gaps[k] - 1) : x \notin QualifyingDays

\* C7: with fewer than 4 gaps in the 4-month window the trend is a result
\* whose direction is 'insufficient', not an absent result.
C7_InsufficientIsReported ==
    (Rendered /\ consistency.period = "4months" /\ Len(Gaps) < 4) =>
        /\ consistency.data.trend # Null
        /\ consistency.data.trend.direction = "insufficient"

\* Twice the median of a list of numbers.
TwiceMedian(g) ==
    IF Len(g) % 2 = 0
    THEN OrderStatistic(g, Len(g) \div 2 - 1) + OrderStatistic(g, Len(g) \div 2)
    ELSE 2 * OrderStatistic(g, Len(g) \div 2)

\* The rendered period is the 4-month window and its gap list has at least
\* 4 entries.
TrendCase == Rendered /\ consistency.period = "4months" /\ Len(Gaps) >= 4

\* C8: with n >= 4 gaps in the 4-month window, the gaps are in date order,
\* past is the first floor(n/2) of them and recent the remaining ones, both
\* have at least 2 entries, and the direction is improving, declining or
\* stable, never insufficient.
C8_TrendSplitsAtFloorHalf ==
    TrendCase =>
        LET data == consistency.data.restDaysData
            n == Len(Gaps)
            past == SubSeq(Gaps, 1, n \div 2)
            recent == SubSeq(Gaps, n \div 2 + 1, n)
            trend == consistency.data.trend
        IN  /\ \A i, j \in 1 .. n : i < j => data[i].date <= data[j].date
            /\ Len(past) >= 2
            /\ Len(recent) >= 2
            /\ trend # Null
            /\ trend.direction \in {"improving", "declining", "stable"}
            /\ trend.pastMedian = TwiceMedian(past)
            /\ trend.recentMedian = TwiceMedian(recent)

\* Exactly 4 gaps have given an improving trend, and 5 gaps a trend too.
C8_Witness ==
    /\ TrendCase
    /\ Len(Gaps) = 4
    /\ consistency.data.trend # Null
    /\ consistency.data.trend.direction = "improving"

\* A trend has been computed and its past median is positive.
ComputedTrend ==
    /\ Rendered
    /\ consistency.data.trend # Null
    /\ consistency.data.trend.direction # "insufficient"
    /\ consistency.data.trend.pastMedian > 0

\* C9: when a trend is computed and pastMedian > 0, percentageChange is
\* 100 * (pastMedian - recentMedian) / pastMedian rounded to the nearest
\* integer (halves upwards); the direction is improving iff it is > 10,
\* declining iff it is < -10, stable otherwise; and a positive
\* percentageChange implies recentMedian < pastMedian.
C9_PercentageChangeAndDirection ==
    ComputedTrend =>
        LET trend == consistency.data.trend
            p == trend.pastMedian
            r == trend.recentMedian
            pc == trend.percentageChange
        IN  /\ (2 * pc - 1) * p <= 200 * (p - r)
            /\ 200 * (p - r) < (2 * pc + 1) * p
            /\ trend.direction = "improving" <=> pc > 10
            /\ trend.direction = "declining" <=> pc < -10
            /\ trend.direction = "stable" <=> (-10 <= pc /\ pc <= 10)
            /\ pc > 0 => r < p

\* A change of exactly 10 percent has been reported as stable.
C9_Witness ==
    /\ ComputedTrend
    /\ consistency.data.trend.percentageChange = 10
    /\ consistency.data.trend.direction = "stable"

\* The number of gaps of the rendered data with a given value.
Occurrences(v) == Cardinality({k \in 1 .. Len(Gaps) : Gaps[k] = v})

\* The sum of the counts of a histogram over a set of its keys.
RECURSIVE SumOfCounts(_, _)
SumOfCounts(histogram, S) ==
    IF S = {} THEN 0
    ELSE LET v == CHOOSE x \in S : TRUE
         IN  histogram[v] + SumOfCounts(histogram, S \ {v})

\* C13: in a summary with at least one gap, the median is the middle value of
\* the sorted gap list (the mean of the two middle values for an even count),
\* min and max are its extremes, min <= median <= max, and the histogram maps
\* each distinct gap to its number of occurrences, which sum to the number of
\* gaps.  medianRestDays is in tenths of a day.
C13_SummaryOfGaps ==
    (Rendered /\ Len(Gaps) >= 1) =>
        LET data == consistency.data
            values == {Gaps[k] : k \in 1 .. Len(Gaps)}
            histogram == data.restDaysDistribution
        IN  /\ data.medianRestDays = 5 * TwiceMedian(Gaps)
            /\ data.minRestDays \in values
            /\ data.maxRestDays \in values
            /\ \A v \in values : data.minRestDays <= v /\ v <= data.maxRestDays
            /\ 10 * data.minRestDays <= data.medianRestDays
            /\ data.medianRestDays <= 10 * data.maxRestDays
            /\ DOMAIN histogram = values
            /\ \A v \in values : histogram[v] = Occurrences(v)
            /\ SumOfCounts(histogram, DOMAIN histogram) = Len(Gaps)

\* An even number of gaps whose two middle values differ by one day: the
\* median is their mean, and one gap value occurs twice.
C13_Witness ==
    /\ Rendered
    /\ Len(Gaps) = 4
    /\ consistency.data.medianRestDays % 10 = 5
    /\ \E v \in DOMAIN consistency.data.restDaysDistribution :
          consistency.data.restDaysDistribution[v] = 2

\* The workouts of the log, inside the window of the rendered period, that
\* have a set of the rendered exercise, as indices of the filtered log.
QualifyingWorkouts ==
    LET inWindow == FilterWorkoutsByPeriod(workouts, consistency.period, now)
    IN  {k \in 1 .. Len(inWindow) :
            \E j \in 1 .. Len(inWindow[k].sets) :
                inWindow[k].sets[j].exerciseId = consistency.exerciseId}

\* C14: with 0 or 1 qualifying workout in the window the summary has an
\* empty gap list, median, min and max 0, pattern Stable, an empty
\* histogram, and workoutCount equal to the number of qualifying workouts.
C14_DegenerateSummary ==
    (consistency # None /\ Cardinality(QualifyingWorkouts) <= 1) =>
        LET data == consistency.data
        IN  /\ data # Null
            /\ data.restDaysData = <<>>
            /\ data.medianRestDays = 0
            /\ data.minRestDays = 0
            /\ data.maxRestDays = 0
            /\ data.pattern = "Stable"
            /\ DOMAIN data.restDaysDistribution = {}
            /\ data.workoutCount = Cardinality(QualifyingWorkouts)

\* One qualifying workout in the window, next to workouts of another
\* exercise, has been rendered.
C14_Witness ==
    /\ Rendered
    /\ Cardinality(QualifyingWorkouts) = 1
    /\ Len(FilterWorkoutsByPeriod(workouts, consistency.period, now)) = 3
    /\ consistency.data.workoutCount = 1

\* The log with every date that cannot be parsed replaced by now.
WorkoutsDatedNowOnFailure ==
    [k \in 1 .. Len(workouts) |->
        IF workouts[k].date \in {UnparseableString, NotADate}
        THEN [workouts[k] EXCEPT !.date = now]
        ELSE workouts[k]]

\* C19: a workout whose date cannot be parsed is treated as dated now: in the
\* windows that contain now (4months, currentYear) it is counted in
\* workoutCount and contributes a qualifying day at now, so the summary is
\* the one of the log with that date replaced by now.
C19_UnparseableDateIsNow ==
    (Rendered /\ consistency.period \in {"4months", "currentYear"}) =>
        LET expected == UseExerciseConsistencyData(WorkoutsDatedNowOnFailure,
                                                  consistency.exerciseId,
                                                  consistency.period, now)
        IN  /\ consistency.data.workoutCount = expected.workoutCount
            /\ DaysOf(consistency.data.restDaysData) = DaysOf(expected.restDaysData)

\* What a caller sees when a call is rejected.
ReportedError == [error |-> "unrecognized period"]

\* C20: a period outside {4months, currentYear, lastYear} is reported to the
\* caller as an error, not absorbed by computing a result over a default
\* window.
C20_UnknownPeriodIsAnError ==
    (consistency # None /\ consistency.period \notin Periods) =>
        consistency.data = ReportedError

----------------------------------------------------------------------------
(* Claims about the year comparison *)

\* The workouts of the log that have a set of the compared exercise and
\* whose date satisfies a condition, as indices of the log.
ComparedWorkouts(InRange(_)) ==
    {k \in 1 .. Len(workouts) :
        /\ InRange(workouts[k].date)
        /\ \E j \in 1 .. Len(workouts[k].sets) :
              workouts[k].sets[j].exerciseId = comparison.exerciseId}

\* Twice the median of the rest days of the compared exercise in a period,
\* 0 when the period has no gap.
TwiceMedianOfPeriod(period) ==
    LET gaps == DaysOf(CalculateRestDays(FilterWorkoutsByPeriod(workouts, period, now),
                                         comparison.exerciseId))
    IN  IF Len(gaps) = 0 THEN 0 ELSE TwiceMedian(gaps)

\* C15: workoutChange = currentCount - lastCount, restDaysChange =
\* lastMedian - currentMedian, and isImproved = (workoutChange > 0) or
\* (workoutChange = 0 and restDaysChange > 0), the medians being those of
\* each year's gaps, 0 for a year without a gap.  Medians are in tenths.
C15_YearComparison ==
    (comparison # None /\ comparison.data # Null) =>
        LET data == comparison.data
        IN  /\ data.workoutChange = data.currentYear.workoutCount - data.lastYear.workoutCount
            /\ data.currentYear.medianRestDays = 5 * TwiceMedianOfPeriod("currentYear")
            /\ data.lastYear.medianRestDays = 5 * TwiceMedianOfPeriod("lastYear")
            /\ data.restDaysChange =
                  data.lastYear.medianRestDays - data.currentYear.medianRestDays
            /\ data.isImproved <=>
                  \/ data.workoutChange > 0
                  \/ data.workoutChange = 0 /\ data.restDaysChange > 0
            /\ (data.currentYear.workoutCount = 0 /\ data.lastYear.workoutCount = 5) =>
                  (data.workoutChange = -5 /\ ~data.isImproved)

\* Equal counts and a shorter median rest this year have been reported as an
\* improvement.
C15_Witness ==
    /\ comparison # None
    /\ comparison.data # Null
    /\ comparison.data.workoutChange = 0
    /\ comparison.data.currentYear.workoutCount = 2
    /\ comparison.data.restDaysChange > 0
    /\ comparison.data.isImproved

\* C16: the current-year summary counts only the workouts dated from
\* 1 January of the current year up to today, and the last-year summary only
\* those whose calendar year is the previous year.
C16_YearWindows ==
    (comparison # None /\ comparison.data # Null) =>
        LET currentYear == GetFullYear(now)
            thisYearToDate(d) == NewDate(currentYear, 0, 1) <= d /\ DayOf(d) <= DayOf(now)
            inLastYear(d) == GetFullYear(d) = currentYear - 1
        IN  /\ comparison.data.currentYear.workoutCount =
                  Cardinality(ComparedWorkouts(thisYearToDate))
            /\ comparison.data.lastYear.workoutCount =
                  Cardinality(ComparedWorkouts(inLastYear))

----------------------------------------------------------------------------
(* Claims about the per-category statistics *)

\* The exercises that are the only one of their category: the qualifying
\* workouts of the category are then those of the exercise.
SoleExercises ==
    {e \in DOMAIN Exercises :
        \A f \in DOMAIN Exercises : Exercises[f].category = Exercises[e].category => f = e}

\* C17: for a category whose qualifying workouts are those of one exercise,
\* the category summary has the workout count, median, min/max and pattern
\* that the per-exercise summary of the 4-month window has.
C17_CategoryIsExerciseSummary ==
    categories # None =>
        \A e \in SoleExercises :
            LET category == categories.stats[Exercises[e].category]
                exercise == UseExerciseConsistencyData(workouts, e, "4months", now)
                gaps == DaysOf(exercise.restDaysData)
            IN  /\ category.workoutCount = exercise.workoutCount
                /\ category.medianRestDays = exercise.medianRestDays
                /\ category.pattern = exercise.pattern
                /\ category.range =
                      IF Len(gaps) = 0 THEN <<>>
                      ELSE IF exercise.minRestDays = exercise.maxRestDays
                      THEN <<exercise.minRestDays>>
                      ELSE <<exercise.minRestDays, exercise.maxRestDays>>

\* The direction the trend rule gives for a gap list in date order, with
\* 'insufficient' for fewer than 4 gaps.
DirectionOfGaps(g) ==
    IF Len(g) < 4 THEN "insufficient"
    ELSE LET past == TwiceMedian(SubSeq(g, 1, Len(g) \div 2))
             recent == TwiceMedian(SubSeq(g, Len(g) \div 2 + 1, Len(g)))
             change == IF past > 0 THEN Round(100 * (past - recent), past) ELSE 0
         IN  IF change > 10 THEN "improving"
             ELSE IF change < -10 THEN "declining"
             ELSE "stable"

\* C18: the trend of a category is the one the trend rule gives for the
\* category's 4-month gap list: split at floor(n/2), insufficient for fewer
\* than 4 gaps, improving above 10 percent, declining below -10, else stable.
C18_CategoryTrendIsTrendRule ==
    categories # None =>
        \A e \in SoleExercises :
            LET exercise == UseExerciseConsistencyData(workouts, e, "4months", now)
            IN  categories.trends[Exercises[e].category].trend =
                    DirectionOfGaps(DaysOf(exercise.restDaysData))

----------------------------------------------------------------------------
(* Claims about the per-position maxima *)

\* The workouts of the log inside the rendered window that have a set of the
\* rendered exercise at the rendered position, as indices of the log.
Candidates ==
    {k \in 1 .. Len(workouts) :
        /\ workouts[k].date >= CutoffDate(maxReps.timeframe, now)
        /\ Len(ExerciseSets(workouts[k], maxReps.exerciseId)) >= maxReps.setPosition}

\* The reps of a candidate at the rendered position.
RepsAt(k) == ExerciseSets(workouts[k], maxReps.exerciseId)[maxReps.setPosition].reps

\* C10: when several in-window workouts reach the maximum at a position, the
\* record holds that maximum and the date of the chronologically earliest
\* workout that reached it, whatever the order of the workout list.
C10_TieKeepsEarliestDate ==
    (maxReps # None /\ Candidates # {}) =>
        LET record == maxReps.record
            best == {k \in Candidates : \A j \in Candidates : RepsAt(j) <= RepsAt(k)}
        IN  /\ record # Null
            /\ \A k \in best : record.maxReps = RepsAt(k)
            /\ \E k \in best : record.date = workouts[k].date
            /\ \A k \in best : record.date <= workouts[k].date

\* The value of a candidate at the rendered position: the duration of the
\* set in seconds for a time-based exercise, its reps otherwise.
ValueAt(k) ==
    LET set == ExerciseSets(workouts[k], maxReps.exerciseId)[maxReps.setPosition]
    IN  IF Exercises[maxReps.exerciseId].exerciseType = "time"
        THEN DurationToSeconds(set.duration)
        ELSE set.reps

\* The sum of the values of a set of candidates.
RECURSIVE SumOfValues(_)
SumOfValues(S) ==
    IF S = {} THEN 0
    ELSE LET k == CHOOSE x \in S : TRUE
         IN  ValueAt(k) + SumOfValues(S \ {k})

\* C11: for a time-based exercise the maximum and the average at a position
\* are those of the sets' durations in seconds; for a reps exercise those of
\* the rep counts.
C11_TimeExercisesUseDurations ==
    (maxReps # None /\ Candidates # {}) =>
        /\ maxReps.record # Null
        /\ \A k \in Candidates : ValueAt(k) <= maxReps.record.maxReps
        /\ \E k \in Candidates : ValueAt(k) = maxReps.record.maxReps
        /\ averageReps.record # Null
        /\ averageReps.record.averageReps =
              Round(100 * SumOfValues(Candidates), Cardinality(Candidates))

\* The sum of the reps of a set of candidates.
RECURSIVE SumOfReps(_)
SumOfReps(S) ==
    IF S = {} THEN 0
    ELSE LET k == CHOOSE x \in S : TRUE
         IN  RepsAt(k) + SumOfReps(S \ {k})

\* C12: the average is absent iff no in-window workout has a set at the
\* position; otherwise totalSets = count and, the values of a reps exercise
\* being its rep counts, averageReps = round(100 * sum / count) / 100 and the
\* average lies between the smallest and the largest contributing value.
C12_AverageOfPosition ==
    averageReps # None =>
        LET record == averageReps.record
            count == Cardinality(Candidates)
            sum == SumOfReps(Candidates)
        IN  /\ record = Null <=> Candidates = {}
            /\ record # Null => record.totalSets = count
            /\ (record # Null /\ Exercises[averageReps.exerciseId].exerciseType = "reps") =>
                  /\ (2 * record.averageReps - 1) * count <= 200 * sum
                  /\ 200 * sum < (2 * record.averageReps + 1) * count
                  /\ \E k \in Candidates : 100 * RepsAt(k) <= record.averageReps
                  /\ \E k \in Candidates : 100 * RepsAt(k) >= record.averageReps

\* An average that is not a whole number of hundredths before rounding (26 / 3)
\* has been rounded up.
C12_Witness ==
    /\ averageReps # None
    /\ averageReps.exerciseId = "e1"
    /\ averageReps.record # Null
    /\ averageReps.record.totalSets = 3
    /\ averageReps.record.averageReps = 867

----------------------------------------------------------------------------
(* Claims about the engine as a whole *)

\* The log in every order: the permutations of the stored list.
Reordered ==
    {[k \in 1 .. Len(workouts) |-> workouts[p[k]]] :
        p \in Permutations(1 .. Len(workouts))}

\* The value of a max record, without the date it was reached on.
MaxValue(record) == IF record = Null THEN Null ELSE [maxReps |-> record.maxReps]

\* C21: every engine result is independent of the order of the workout log:
\* whatever was computed on the stored list (streaks and totals, the training
\* percentages, the consistency summary with its gap list, median, min, max,
\* histogram, pattern and trend, the year comparison, the per-position max
\* value and average) is what the same function returns on every permutation
\* of the list at the same current time.
C21_OrderIndependent ==
    \A ws \in Reordered :
        /\ stats # None => stats = CalculateStats(ws, now)
        /\ percentages # None =>
               percentages = [week |-> GetCurrentWeekPercentage(ws, now),
                              month |-> GetCurrentMonthPercentage(ws, now),
                              year |-> GetCurrentYearPercentage(ws, now)]
        /\ consistency # None =>
               consistency.data =
                   UseExerciseConsistencyData(ws, consistency.exerciseId,
                                              consistency.period, now)
        /\ comparison # None =>
               comparison.data = UseExerciseYearComparison(ws, comparison.exerciseId, now)
        /\ maxReps # None =>
               MaxValue(maxReps.record) =
                   MaxValue(CalculateMaxReps(ws, maxReps.exerciseId, maxReps.setPosition,
                                             maxReps.timeframe, now))
        /\ averageReps # None =>
               averageReps.record =
                   CalculateAverageReps(ws, averageReps.exerciseId, averageReps.setPosition,
                                        averageReps.timeframe, now)

\* A summary with two different gaps was computed on a log of three workouts
\* stored newest first.
C21_Witness ==
    /\ Len(workouts) = 3
    /\ workouts[1].date > workouts[2].date
    /\ workouts[2].date > workouts[3].date
    /\ consistency # None
    /\ consistency.data.minRestDays < consistency.data.maxRestDays

\* C22: the engine is deterministic: any two calls of the consistency hook
\* with the same workout log, exercise, period and current time return equal
\* results, whatever calls were made before them.
C22_Deterministic ==
    \A a, b \in calls :
        (a.exerciseId = b.exerciseId /\ a.period = b.period /\ a.at = b.at)
            => a.data = b.data

\* C23: no engine computation modifies its inputs: over every call of
\* calculateStats, the training percentages, the consistency hook, the year
\* comparison, the category statistics and trends, and the per-position max
\* and average, the workout list (its order, its workouts, each workout's
\* sets) and the exercise list stay what they were.
C23_InputsUnchanged ==
    [][workouts' = workouts /\ exercises' = exercises]_vars

\* calculateStats has run on a log of three workouts stored oldest first,
\* which its sort newest first would reverse.
C23_Witness ==
    /\ stats # None
    /\ Len(workouts) = 3
    /\ workouts[1].date < workouts[2].date
    /\ workouts[2].date < workouts[3].date

\* The 1-based ordinal of the i-th stored set of a workout among the sets of
\* its exercise in that workout, in stored order.
OrdinalOf(workout, i) ==
    Cardinality({j \in 1 .. i : workout.sets[j].exerciseId = workout.sets[i].exerciseId})

\* The reps of the set of the workout that is the p-th of the exercise: a
\* set with one element, or empty if the workout has fewer such sets.
RepsOfPosition(workout, exerciseId, setPosition) ==
    {workout.sets[i].reps : i \in {j \in 1 .. Len(workout.sets) :
                                      /\ workout.sets[j].exerciseId = exerciseId
                                      /\ OrdinalOf(workout, j) = setPosition}}

\* The in-window workouts (by index) with a set of the rendered exercise at
\* the rendered position.
Contributing ==
    {k \in 1 .. Len(workouts) :
        /\ workouts[k].date >= CutoffDate(maxReps.timeframe, now)
        /\ RepsOfPosition(workouts[k], maxReps.exerciseId, maxReps.setPosition) # {}}

\* The reps a contributing workout contributes.
Contribution(k) ==
    CHOOSE r \in RepsOfPosition(workouts[k], maxReps.exerciseId, maxReps.setPosition) : TRUE

RECURSIVE SumOfContributions(_)
SumOfContributions(S) ==
    IF S = {} THEN 0
    ELSE LET k == CHOOSE x \in S : TRUE
         IN  Contribution(k) + SumOfContributions(S \ {k})

\* C24: a set's position is its 1-based ordinal among the sets of the same
\* exercise within one workout, in stored order: for position p the max and
\* the average read from each in-window workout the p-th set with that
\* exerciseId, whatever sets of other exercises lie between, whatever the
\* values, and whatever other workouts hold.
C24_PositionWithinWorkout ==
    maxReps # None =>
        /\ maxReps.record = Null <=> Contributing = {}
        /\ averageReps.record = Null <=> Contributing = {}
        /\ Contributing # {} =>
              /\ \A k \in Contributing : Contribution(k) <= maxReps.record.maxReps
              /\ \E k \in Contributing : Contribution(k) = maxReps.record.maxReps
              /\ averageReps.record.totalSets = Cardinality(Contributing)
              /\ averageReps.record.averageReps =
                     Round(100 * SumOfContributions(Contributing),
                           Cardinality(Contributing))

\* The second set of e1 was read from a workout whose sets of e1 have a set
\* of e2 between them and are stored larger first, and from no workout with
\* one set of e1 only.
C24_Witness ==
    /\ maxReps # None
    /\ maxReps.exerciseId = "e1"
    /\ maxReps.setPosition = 2
    /\ Len(workouts) = 3
    /\ Cardinality(Contributing) = 1
    /\ maxReps.record # Null
    /\ maxReps.record.maxReps = 8
    /\ \E k \in 1 .. Len(workouts) : Len(workouts[k].sets) = 1

\* The positions of a series of records, in the order of the series.
PositionsOf(series) == [i \in 1 .. Len(series) |-> series[i].setPosition]

\* The number of stored sets of the rendered exercise in a workout.
SetCount(workout) ==
    Cardinality({j \in 1 .. Len(workout.sets) :
                    workout.sets[j].exerciseId = maxReps.exerciseId})

\* The positions p such that an in-window workout has at least p sets of the
\* rendered exercise.
PresentPositions ==
    {p \in 1 .. 10 : \E k \in 1 .. Len(workouts) :
        /\ workouts[k].date >= CutoffDate(maxReps.timeframe, now)
        /\ SetCount(workouts[k]) >= p}

\* C25: getExerciseMaxReps and getExerciseAverageReps return, for the same
\* workouts, exercise and timeframe, series over exactly the same positions in
\* strictly increasing order; position p is present iff an in-window workout
\* has at least p sets of the exercise, so the positions are 1 .. k for a k
\* that is at most the largest number of sets of the exercise in a workout of
\* the log.
C25_SeriesPositions ==
    maxReps # None =>
        LET maxPositions == PositionsOf(maxReps.series)
            avgPositions == PositionsOf(averageReps.series)
            k == Len(maxPositions)
        IN  /\ maxPositions = avgPositions
            /\ \A i \in 1 .. k : maxPositions[i] = i
            /\ {maxPositions[i] : i \in 1 .. k} = PresentPositions
            /\ \A i \in 1 .. k : /\ maxReps.series[i].exerciseId = maxReps.exerciseId
                                 /\ averageReps.series[i].exerciseId = maxReps.exerciseId
            /\ k > 0 => \E j \in 1 .. Len(workouts) : SetCount(workouts[j]) >= k

\* The 3-month series has position 1 only, while a workout outside the window
\* has two sets of the exercise.
C25_Witness ==
    /\ maxReps # None
    /\ maxReps.exerciseId = "e1"
    /\ maxReps.timeframe = "3months"
    /\ Len(maxReps.series) = 1
    /\ \E j \in 1 .. Len(workouts) : SetCount(workouts[j]) = 2

\* now minus three calendar months: the same day of the month and time of
\* day, three months earlier.
ThreeMonthsAgo ==
    NewDate(GetFullYear(now), GetMonth(now) - 3, GetDate(now)) + TimeOfDay(now)

\* The workouts (by index) dated between now minus three calendar months and
\* now that have a set of the rendered exercise at the rendered position.
InThreeMonths ==
    {k \in 1 .. Len(workouts) :
        /\ workouts[k].date >= ThreeMonthsAgo
        /\ workouts[k].date <= now
        /\ RepsOfPosition(workouts[k], maxReps.exerciseId, maxReps.setPosition) # {}}

\* C26: with the '3months' window the max and the average at a position take
\* into account exactly the workouts dated between now minus three calendar
\* months and now; an older workout, or one dated after now, never
\* contributes.
C26_ThreeMonthWindow ==
    (maxReps # None /\ maxReps.timeframe = "3months") =>
        /\ maxReps.record = Null <=> InThreeMonths = {}
        /\ averageReps.record = Null <=> InThreeMonths = {}
        /\ InThreeMonths # {} =>
              /\ \A k \in InThreeMonths : Contribution(k) <= maxReps.record.maxReps
              /\ \E k \in InThreeMonths : Contribution(k) = maxReps.record.maxReps
              /\ averageReps.record.totalSets = Cardinality(InThreeMonths)
              /\ averageReps.record.averageReps =
                     Round(100 * SumOfContributions(InThreeMonths),
                           Cardinality(InThreeMonths))

----------------------------------------------------------------------------
(* Claims about App: the log, the draft and the exercises *)

\* The calendar days of the workouts of a log, in stored order.
CalendarDays(ws) == [k \in 1 .. Len(ws) |-> ToDateString(ws[k].date)]

\* C27: starting from an empty log, after any sequence of saves from the
\* logger, auto-saves on leaving the workout tab, imports, and deletions of a
\* workout or an exercise, no two workouts of the log are on the same
\* calendar day.
C27_OneWorkoutPerDay ==
    \A j, k \in 1 .. Len(workouts) : j # k => CalendarDays(workouts)[j] # CalendarDays(workouts)[k]

\* A step that saves from the workout tab: handleSaveWorkout or
\* handleUpdateWorkout has run, from handleSave or from handleTabChange.
SaveStep ==
    /\ activeTab = "workout"
    /\ activeTab' # "workout"
    /\ workouts' # workouts

\* A step that writes the draft.
DraftWritten == draft' # draft /\ draft' # Null

\* C28: a save removes the draft, and once the app has left the workout tab
\* by a save, no timeout that was pending at the save writes back a draft
\* that holds the sets of a saved workout.
C28_DraftClearedForGood ==
    [][/\ SaveStep => draft' = Null
       /\ (DraftWritten /\ activeTab # "workout") =>
              \A k \in 1 .. Len(workouts) : draft'.sets # workouts[k].sets]_vars

\* C29: at most one draft timeout is pending, the timeout an edit sets is the
\* only one pending after it, and a timeout that expires writes the sets and
\* the notes of the most recent edit.
C29_LatestEditWins ==
    [][/\ Cardinality(timers') <= 1
       /\ draftSaveTimeoutRef' # draftSaveTimeoutRef =>
              \A timer \in timers' : timer.id = draftSaveTimeoutRef'
       /\ (DraftWritten /\ pendingWorkout # Null) =>
              /\ draft'.sets = pendingWorkout.sets
              /\ draft'.notes = pendingWorkout.notes]_vars

\* Several edits have set their timeouts, and the last one has expired and
\* written the draft of the last edit.
C29_Witness ==
    /\ draftSaveTimeoutRef >= 3
    /\ timers = {}
    /\ draft # Null
    /\ pendingWorkout # Null
    /\ Len(pendingWorkout.sets) = 2
    /\ draft.sets = pendingWorkout.sets

\* The entries (sets of a workout, exercises of a template) that do not
\* refer to an exercise, in their order.
NotReferring(entries, id) == SelectSeq(entries, LAMBDA entry : entry.exerciseId # id)

\* The workouts of a log that keep a set when an exercise goes, each with
\* the sets it keeps.
WorkoutsWithout(ws, id) ==
    SelectSeq([k \in 1 .. Len(ws) |-> Workout(ws[k].date, NotReferring(ws[k].sets, id))],
              LAMBDA workout : workout.sets # <<>>)

\* The templates that keep an exercise when an exercise goes, each with the
\* exercises it keeps.
TemplatesWithout(ts, id) ==
    SelectSeq([k \in 1 .. Len(ts) |->
                  [name |-> ts[k].name, exercises |-> NotReferring(ts[k].exercises, id)]],
              LAMBDA template : template.exercises # <<>>)

\* The exercise a step deletes, if it deletes one.
Deleted(id) ==
    /\ \E e \in 1 .. Len(exercises) : exercises[e] = id
    /\ \A e \in 1 .. Len(exercises') : exercises'[e] # id

\* C30: after handleDeleteExercise(id) no exercise has that id, no set of a
\* workout and no entry of a template refers to it, no workout is left
\* without sets and no template without exercises; what does not refer to
\* id is unchanged and keeps its order.
C30_ExerciseDeleted ==
    [][\A id \in {"e1", "e2", "e3"} : Deleted(id) =>
          /\ exercises' = SelectSeq(exercises, LAMBDA exercise : exercise # id)
          /\ \A k \in 1 .. Len(workouts') :
                /\ Len(workouts'[k].sets) > 0
                /\ \A n \in 1 .. Len(workouts'[k].sets) : workouts'[k].sets[n].exerciseId # id
          /\ \A k \in 1 .. Len(templates') :
                /\ Len(templates'[k].exercises) > 0
                /\ \A n \in 1 .. Len(templates'[k].exercises) :
                      templates'[k].exercises[n].exerciseId # id
          /\ workouts' = WorkoutsWithout(workouts, id)
          /\ templates' = TemplatesWithout(templates, id)]_vars

\* An exercise has been deleted from a log with a workout that had only its
\* sets and a workout that had other sets too, and from the templates.
C30_Witness ==
    /\ Len(exercises) = 2
    /\ exercises = <<"e1", "e3">>
    /\ Len(workouts) = 2
    /\ workouts[1].sets = <<WorkoutSet("e3", 5)>>
    /\ workouts[2].sets = <<WorkoutSet("e1", 10), WorkoutSet("e1", 8)>>
    /\ Len(templates) = 1

====
